---- MODULE Spec2Model ----
(***************************************************************************)
(* A model of the SVG construction code of ef1p: the label alignment rule, *)
(* the Line element with its text and shorten methods, its serialization,  *)
(* the connectors ConnectionLine and DiagonalLine, and the diagram script  *)
(* printEnvelope (src/pages/email/graphics/message-envelope.ts).           *)
(*                                                                         *)
(* Coordinates are the numbers of the code on a fixed-point grid: one      *)
(* diagram unit is Unit grid steps.  Objects live in a heap (a sequence);  *)
(* an object's identity is its index, and a method that returns a new      *)
(* object appends it.  The variable call records the last call: its        *)
(* arguments, whether it threw, and what it returned.  The variable        *)
(* registry holds the marker definitions of the running generation, in the *)
(* order of their registration.  The variables elements and pc are the     *)
(* array and the position of a running printEnvelope, and output holds the *)
(* documents printSVG has emitted.                                         *)
(***************************************************************************)
EXTENDS Integers, Sequences, FiniteSets, TLC

VARIABLES heap, call, registry, elements, pc, output, dnsResponseStore, lookups

vars == <<heap, call, registry, elements, pc, output, dnsResponseStore, lookups>>

(***************************************************************************)
(* Numbers                                                                 *)
(***************************************************************************)

\* Grid steps per diagram unit: coordinates carry four decimal places.
Unit == 10000

Abs(n) == IF n < 0 THEN -n ELSE n

RECURSIVE Gcd(_, _)
Gcd(a, b) == IF b = 0 THEN a ELSE Gcd(b, a % b)

\* The exact square root; it exists for every direction the model draws from.
ISqrt(n) == CHOOSE r \in 0..n : r * r = n

(***************************************************************************)
(* Point (utility/point): the vector algebra the Line methods call.        *)
(***************************************************************************)

P(x, y) == [x |-> x * Unit, y |-> y * Unit]

add(p, q) == [x |-> p.x + q.x, y |-> p.y + q.y]

subtract(p, q) == [x |-> p.x - q.x, y |-> p.y - q.y]

absolute(p) == [x |-> Abs(p.x), y |-> Abs(p.y)]

\* Rotation by 90 degrees; the y axis of the drawing points down, so the left
\* of the direction (1, 0) is (0, -1).
rotate(p, side) ==
    IF side = "left" THEN [x |-> p.y, y |-> -p.x] ELSE [x |-> -p.y, y |-> p.x]

\* The vector divided by the greatest common divisor of its components.
Direction(p) ==
    LET g == Gcd(Abs(p.x), Abs(p.y))
    IN  IF g = 0 THEN p ELSE [x |-> p.x \div g, y |-> p.y \div g]

\* Euclidean magnitude, computed on the primitive direction so that no
\* intermediate product leaves the range of 32-bit integers.
length(p) ==
    LET g == Gcd(Abs(p.x), Abs(p.y))
        d == Direction(p)
    IN  IF g = 0 THEN 0 ELSE g * ISqrt(d.x * d.x + d.y * d.y)

IsZero(p) == p.x = 0 /\ p.y = 0

\* The vector of the given length in the same direction: p * len / |p|.
\* Only called on a non-zero vector; the callers raise the error otherwise.
normalize(p, len) ==
    LET d == Direction(p)
        l == ISqrt(d.x * d.x + d.y * d.y)
    IN  [x |-> (d.x * len) \div l, y |-> (d.y * len) \div l]

(***************************************************************************)
(* Objects with optional keys, and the spread { ...a, ...b }.              *)
(***************************************************************************)

EmptyObject == [k \in {} |-> 0]

Has(obj, key) == key \in DOMAIN obj

\* { ...base, ...over }: every key of over wins, also one whose value is
\* undefined.
Spread(base, over) ==
    [k \in (DOMAIN base) \cup (DOMAIN over) |->
        IF k \in DOMAIN over THEN over[k] ELSE base[k]]

\* The value undefined of a colour.
UndefinedColor == "undefined"

\* this.props.color: undefined when the key is absent.
ColorOf(props) == IF Has(props, "color") THEN props.color ELSE UndefinedColor

\* The colour names of the stylesheet ($svg-colors).
Palette ==
    {"blue", "purple", "pink", "red", "orange", "yellow", "green", "brown", "gray",
     "text", "background"}

\* Mutant: every colour name is accepted.
RecognizedColor_Any(props) == TRUE

\* The validation in the element constructor (elements/element): an element has no
\* colour or one of the palette.
RecognizedColor(props) == ColorOf(props) = UndefinedColor \/ ColorOf(props) \in Palette

(***************************************************************************)
(* determineAlignment                                                      *)
(***************************************************************************)

\* Mutant: the horizontal dead zone includes its border.
determineAlignment_HorizontalBorder(offset) ==
    LET absoluteOffset == absolute(offset)
    IN  [horizontalAlignment |->
            IF absoluteOffset.y >= absoluteOffset.x * 4 THEN "center"
            ELSE IF offset.x > 0 THEN "left" ELSE "right",
         verticalAlignment |->
            IF absoluteOffset.x > absoluteOffset.y * 4 THEN "center"
            ELSE IF offset.y > 0 THEN "top" ELSE "bottom"]

\* Mutant: top and bottom are exchanged.
determineAlignment_VerticalSwapped(offset) ==
    LET absoluteOffset == absolute(offset)
    IN  [horizontalAlignment |->
            IF absoluteOffset.y > absoluteOffset.x * 4 THEN "center"
            ELSE IF offset.x > 0 THEN "left" ELSE "right",
         verticalAlignment |->
            IF absoluteOffset.x > absoluteOffset.y * 4 THEN "center"
            ELSE IF offset.y > 0 THEN "bottom" ELSE "top"]

determineAlignment(offset) ==
    LET absoluteOffset == absolute(offset)
    IN  [horizontalAlignment |->
            IF absoluteOffset.y > absoluteOffset.x * 4 THEN "center"
            ELSE IF offset.x > 0 THEN "left" ELSE "right",
         verticalAlignment |->
            IF absoluteOffset.x > absoluteOffset.y * 4 THEN "center"
            ELSE IF offset.y > 0 THEN "top" ELSE "bottom"]

(***************************************************************************)
(* Initial state, and the calls of determineAlignment.                     *)
(***************************************************************************)

NoCall == [op |-> "none"]

Init ==
    /\ heap = <<>>
    /\ call = NoCall
    /\ registry = <<>>
    /\ elements = <<>>
    /\ pc = "idle"
    /\ output = <<>>
    /\ dnsResponseStore = EmptyObject
    /\ lookups = <<>>

\* What a call that neither serializes nor belongs to printEnvelope leaves
\* alone.
generation ==
    <<registry, elements, pc, output, dnsResponseStore, lookups>>

\* Offsets have both components in -AlignRange..AlignRange diagram units.
AlignRange == 5

AlignOffsets == {P(x, y) : x \in -AlignRange..AlignRange, y \in -AlignRange..AlignRange}

DetermineAlignmentCall(offset) ==
    /\ call' = [op |-> "determineAlignment",
                offset |-> offset,
                result |-> determineAlignment(offset)]
    /\ UNCHANGED <<heap, generation>>

NextAlign == \E offset \in AlignOffsets : DetermineAlignmentCall(offset)

SpecAlign == Init /\ [][NextAlign]_vars

(***************************************************************************)
(* Claims about determineAlignment (checked under SpecAlign).              *)
(***************************************************************************)

\* C1: for every offset (x, y), determineAlignment returns horizontalAlignment
\* "center" if and only if |y| > 4*|x|; for every other offset it returns
\* "left" when x > 0 and "right" when x < 0.
C1_HorizontalAlignment ==
    call.op = "determineAlignment" =>
        LET o == call.offset
            h == call.result.horizontalAlignment
            dominated == Abs(o.y) > 4 * Abs(o.x)
        IN  /\ (h = "center") <=> dominated
            /\ (~dominated /\ o.x > 0) => h = "left"
            /\ (~dominated /\ o.x < 0) => h = "right"

\* The border of the dead zone, |y| = 4*|x|, is not centred.
C1_Witness ==
    /\ call.op = "determineAlignment"
    /\ call.offset = P(1, 4)
    /\ call.result.horizontalAlignment = "left"

\* C2: for every offset (x, y), determineAlignment returns verticalAlignment
\* "center" if and only if |x| > 4*|y|; for every other offset it returns
\* "top" when y > 0 and "bottom" when y < 0.
C2_VerticalAlignment ==
    call.op = "determineAlignment" =>
        LET o == call.offset
            v == call.result.verticalAlignment
            dominated == Abs(o.x) > 4 * Abs(o.y)
        IN  /\ (v = "center") <=> dominated
            /\ (~dominated /\ o.y > 0) => v = "top"
            /\ (~dominated /\ o.y < 0) => v = "bottom"

\* An offset pointing up and to the left, outside both dead zones.
C2_Witness ==
    /\ call.op = "determineAlignment"
    /\ call.offset = P(-4, -1)
    /\ call.result.verticalAlignment = "bottom"

(***************************************************************************)
(* Box (utility/box) and the constants the Line methods import.            *)
(***************************************************************************)

Min(a, b) == IF a < b THEN a ELSE b

\* The smallest axis-aligned box that contains both points.
BoundingBox(p1, p2) ==
    [topLeft |-> [x |-> Min(p1.x, p2.x), y |-> Min(p1.y, p2.y)],
     size |-> absolute(subtract(p2, p1))]

BoxCenter(box) ==
    [x |-> box.topLeft.x + box.size.x \div 2, y |-> box.topLeft.y + box.size.y \div 2]

\* The standoff of a label from its line, in diagram units.
lineToTextDistance == 12 * Unit

(***************************************************************************)
(* Line                                                                    *)
(***************************************************************************)

\* new Line(props)
Line(props) == [kind |-> "line", props |-> props]

Line_vector(line) == subtract(line.props.end, line.props.start)

Line_length(line) == length(Line_vector(line))

\* Mutant: the box is spanned from the start, whatever the order of the points.
Line_boundingBox_FromStart(line) ==
    [topLeft |-> line.props.start, size |-> subtract(line.props.end, line.props.start)]

Line_boundingBox(line) == BoundingBox(line.props.start, line.props.end)

\* VisualElement.center() of a line: the centre of its bounding box.
Line_center(line) == BoxCenter(Line_boundingBox(line))

\* What a method call yields: the heap after it, the index of the object it
\* returns (0 when it throws), and whether it throws.
Returned(h, object) == [heap |-> Append(h, object), result |-> Len(h) + 1, error |-> FALSE]

Thrown(h) == [heap |-> h, result |-> 0, error |-> TRUE]

\* new Line(...), new Text(...), new Rectangle(...): the constructor returns
\* the object or throws.
Constructed(h, object) ==
    IF RecognizedColor(object.props) THEN Returned(h, object) ELSE Thrown(h)

\* An argument the caller may leave out.
UndefinedArgument == [type |-> "undefined"]

NumberArgument(n) == [type |-> "number", number |-> n]

ObjectArgument(obj) == [type |-> "object", object |-> obj]

\* { ...argument }: the keys of an object; a number spreads to nothing.
SpreadOf(argument) == IF argument.type = "object" THEN argument.object ELSE EmptyObject

\* Mutant: the inherited colour is written after the props and wins.
Line_text_ColorLast(h, this, text, side, props) ==
    LET line == h[this]
        theSide == IF side = "undefined" THEN "left" ELSE side
        vector == Line_vector(line)
    IN  IF IsZero(vector) THEN Thrown(h)
        ELSE LET offset == normalize(rotate(vector, theSide), lineToTextDistance)
                 position == add(Line_center(line), offset)
                 color == ColorOf(line.props)
             IN  Constructed(h, [kind |-> "text",
                                 props |-> Spread(Spread(Spread([position |-> position, text |-> text],
                                                                determineAlignment(offset)),
                                                         SpreadOf(props)),
                                                  [color |-> color])])

\* Line.text(text, side = 'left', props = {}).  A default applies when the
\* argument is undefined; the zero vector of a degenerate line makes
\* normalize throw.
Line_text(h, this, text, side, props) ==
    LET line == h[this]
        theSide == IF side = "undefined" THEN "left" ELSE side
        vector == Line_vector(line)
    IN  IF IsZero(vector) THEN Thrown(h)
        ELSE LET offset == normalize(rotate(vector, theSide), lineToTextDistance)
                 position == add(Line_center(line), offset)
                 color == ColorOf(line.props)
             IN  Constructed(h, [kind |-> "text",
                                 props |-> Spread(Spread(Spread([position |-> position, text |-> text],
                                                                determineAlignment(offset)),
                                                         [color |-> color]),
                                                  SpreadOf(props))])

\* Default of the optional endOffset: <<>> is the argument left out.
EndOffsetOf(startOffset, endOffset) ==
    IF endOffset = <<>> THEN startOffset ELSE endOffset[1]

\* Mutant: the end is moved along the vector instead of against it.
Line_shorten_EndAdded(h, this, startOffset, endOffset) ==
    LET line == h[this]
        vector == Line_vector(line)
    IN  IF IsZero(vector) THEN Thrown(h)
        ELSE LET start == add(line.props.start, normalize(vector, startOffset))
                 end == add(line.props.end,
                            normalize(vector, EndOffsetOf(startOffset, endOffset)))
             IN  Constructed(h, Line(Spread(line.props, [start |-> start, end |-> end])))

\* Mutant: the line is edited in place and returned.
Line_shorten_InPlace(h, this, startOffset, endOffset) ==
    LET line == h[this]
        vector == Line_vector(line)
    IN  IF IsZero(vector) THEN Thrown(h)
        ELSE LET start == add(line.props.start, normalize(vector, startOffset))
                 end == subtract(line.props.end,
                                 normalize(vector, EndOffsetOf(startOffset, endOffset)))
             IN  [heap |-> [h EXCEPT ![this] =
                               Line(Spread(line.props, [start |-> start, end |-> end]))],
                  result |-> this,
                  error |-> FALSE]

\* Mutant: a zero vector is normalized to the zero vector.
Line_shorten_ZeroTolerated(h, this, startOffset, endOffset) ==
    LET line == h[this]
        vector == Line_vector(line)
    IN  IF IsZero(vector) THEN Constructed(h, Line(line.props))
        ELSE LET start == add(line.props.start, normalize(vector, startOffset))
                 end == subtract(line.props.end,
                                 normalize(vector, EndOffsetOf(startOffset, endOffset)))
             IN  Constructed(h, Line(Spread(line.props, [start |-> start, end |-> end])))

\* Line.shorten(startOffset, endOffset = startOffset)
Line_shorten(h, this, startOffset, endOffset) ==
    LET line == h[this]
        vector == Line_vector(line)
    IN  IF IsZero(vector) THEN Thrown(h)
        ELSE LET start == add(line.props.start, normalize(vector, startOffset))
                 end == subtract(line.props.end,
                                 normalize(vector, EndOffsetOf(startOffset, endOffset)))
             IN  Constructed(h, Line(Spread(line.props, [start |-> start, end |-> end])))

(***************************************************************************)
(* A script that constructs lines and calls their methods.                 *)
(***************************************************************************)

\* The script keeps at most MaxHeap objects.
MaxHeap == 3

\* marker: a single Marker or an array of them.
SingleMarker(m) == [kind |-> "single", of |-> <<m>>]

MarkerArray(ms) == [kind |-> "array", of |-> ms]

UndefinedMarker == [kind |-> "undefined", of |-> <<>>]

\* The props of the lines the script constructs: the line of the shortening
\* scenario, a vertical line with a marker at both ends, a slanted route line,
\* a line drawn right to left, and a degenerate line.
LineInputs ==
    { [start |-> P(0, 0), end |-> P(100, 0)],
      [start |-> P(0, 0), end |-> P(0, -50), color |-> "yellow",
       marker |-> MarkerArray(<<"start", "end">>)],
      [start |-> P(10, 20), end |-> P(40, 60), color |-> "orange"],
      [start |-> P(100, 0), end |-> P(0, 0), color |-> "green",
       marker |-> SingleMarker("end")],
      [start |-> P(50, 50), end |-> P(50, 50), color |-> "green"] }

StartOffsets == {0, 10 * Unit, 30 * Unit}

EndOffsets == {<<>>, <<20 * Unit>>}

Sides == {"undefined", "left", "right"}

MiddleAlignment == [horizontalAlignment |-> "middle", verticalAlignment |-> "middle"]

\* The third and the fourth argument of a call of text: nothing; the call of
\* the packet diagram (a distance of 18, then the props); a distance alone;
\* props that name a colour; props that name the alignment.
TextArguments ==
    { <<UndefinedArgument, UndefinedArgument>>,
      <<NumberArgument(18 * Unit), ObjectArgument(MiddleAlignment)>>,
      <<NumberArgument(12 * Unit), UndefinedArgument>>,
      <<ObjectArgument([color |-> "blue"]), UndefinedArgument>>,
      <<ObjectArgument(MiddleAlignment), UndefinedArgument>> }

NewLineCall(props) ==
    /\ Len(heap) < MaxHeap
    /\ LET r == Constructed(heap, Line(props))
       IN  /\ heap' = r.heap
           /\ call' = [op |-> "newLine", props |-> props, error |-> r.error,
                       result |-> r.result]
    /\ UNCHANGED generation

\* Mutant: shortening declares the marker of the line it returns.
ShortenCall_Registers(this, startOffset, endOffset) ==
    /\ Len(heap) < MaxHeap
    /\ heap[this].kind = "line"
    /\ LET r == Line_shorten(heap, this, startOffset, endOffset)
       IN  /\ heap' = r.heap
           /\ call' = [op |-> "shorten", this |-> this, startOffset |-> startOffset,
                       endOffset |-> endOffset, error |-> r.error, result |-> r.result]
    /\ registry' = Append(registry, [kind |-> "end", color |-> ColorOf(heap[this].props)])
    /\ UNCHANGED <<dnsResponseStore, lookups, elements, pc, output>>

ShortenCall(this, startOffset, endOffset) ==
    /\ Len(heap) < MaxHeap
    /\ heap[this].kind = "line"
    /\ LET r == Line_shorten(heap, this, startOffset, endOffset)
       IN  /\ heap' = r.heap
           /\ call' = [op |-> "shorten", this |-> this, startOffset |-> startOffset,
                       endOffset |-> endOffset, error |-> r.error, result |-> r.result]
    /\ UNCHANGED generation

\* The method has three parameters: a fourth argument is dropped by the call.
TextCall(this, side, arguments) ==
    /\ Len(heap) < MaxHeap
    /\ heap[this].kind = "line"
    /\ LET r == Line_text(heap, this, "label", side, arguments[1])
       IN  /\ heap' = r.heap
           /\ call' = [op |-> "text", this |-> this, side |-> side,
                       argument3 |-> arguments[1], argument4 |-> arguments[2],
                       error |-> r.error, result |-> r.result]
    /\ UNCHANGED generation

NextLine ==
    \/ \E props \in LineInputs : NewLineCall(props)
    \/ \E this \in DOMAIN heap, startOffset \in StartOffsets, endOffset \in EndOffsets :
          ShortenCall(this, startOffset, endOffset)
    \/ \E this \in DOMAIN heap, side \in Sides, arguments \in TextArguments :
          TextCall(this, side, arguments)

SpecLine == Init /\ [][NextLine]_vars

(***************************************************************************)
(* Claims about Line.shorten and Line.text (checked under SpecLine).       *)
(***************************************************************************)

\* to is from moved by distance in the direction of vector.
MovedAlong(from, to, vector, distance) ==
    LET step == subtract(to, from)
    IN  IF distance = 0 THEN IsZero(step)
        ELSE Direction(step) = Direction(vector) /\ length(step) = distance

AxisAligned(vector) == vector.x = 0 \/ vector.y = 0

ShortenReturned == call.op = "shorten" /\ ~call.error

\* The stated motion of both endpoints, with endOffset defaulting to
\* startOffset, and the scenario (0,0)-(100,0) shortened by 10.
ShortenMovesEndpoints ==
    LET old == heap[call.this]
        new == heap[call.result]
        s == call.startOffset
        e == IF call.endOffset = <<>> THEN s ELSE call.endOffset[1]
        vector == Line_vector(old)
    IN  /\ MovedAlong(old.props.start, new.props.start, vector, s)
        /\ MovedAlong(new.props.end, old.props.end, vector, e)
        /\ (old.props.start = P(0, 0) /\ old.props.end = P(100, 0)
                /\ s = 10 * Unit /\ call.endOffset = <<>>)
            => (new.props.start = P(10, 0) /\ new.props.end = P(90, 0))

\* C7 (as stated): Line.shorten(s, e) on a non-degenerate line returns a line
\* whose start is moved by s towards the end and whose end is moved by e
\* towards the start, so that an axis-aligned line of length L becomes one of
\* length L - s - e, with e defaulting to s; (0,0)-(100,0) shortened by 10
\* yields (10,0)-(90,0).
C7_ShortenAsStated ==
    ShortenReturned =>
        LET old == heap[call.this]
            new == heap[call.result]
            s == call.startOffset
            e == IF call.endOffset = <<>> THEN s ELSE call.endOffset[1]
        IN  /\ ShortenMovesEndpoints
            /\ AxisAligned(Line_vector(old))
                => Line_length(new) = Line_length(old) - s - e

\* C7 (amended): the same, the length L - s - e being claimed only when
\* s + e <= L; when the offsets overlap the endpoints pass each other and the
\* length is s + e - L.
C7_Shorten ==
    ShortenReturned =>
        LET old == heap[call.this]
            new == heap[call.result]
            s == call.startOffset
            e == IF call.endOffset = <<>> THEN s ELSE call.endOffset[1]
            L == Line_length(old)
        IN  /\ ShortenMovesEndpoints
            /\ AxisAligned(Line_vector(old))
                => Line_length(new) = (IF s + e <= L THEN L - s - e ELSE s + e - L)

\* The scenario of the claim: (0,0)-(100,0) shortened by 10 at both ends.
C7_Witness ==
    /\ ShortenReturned
    /\ heap[call.this].props.start = P(0, 0)
    /\ heap[call.this].props.end = P(100, 0)
    /\ call.startOffset = 10 * Unit
    /\ call.endOffset = <<>>
    /\ heap[call.result].props.start = P(10, 0)
    /\ heap[call.result].props.end = P(90, 0)

\* C8: Line.shorten and Line.text never modify the line they are called on:
\* every object of the heap is after any call what it was before, and a call
\* of shorten or text that returns, returns an object that did not exist.
C8_LinesImmutable ==
    [][/\ \A i \in DOMAIN heap : i \in DOMAIN heap' /\ heap'[i] = heap[i]
       /\ (call'.op \in {"shorten", "text"} /\ ~call'.error)
            => (call'.result = Len(heap) + 1 /\ Len(heap') = Len(heap) + 1)]_vars

\* A line that was shortened and then labelled is still what it was.
C8_Witness ==
    /\ Len(heap) = 3
    /\ heap[1] = Line([start |-> P(0, 0), end |-> P(100, 0)])
    /\ heap[2].kind = "line"
    /\ heap[2].props.start = P(10, 0)
    /\ heap[3].kind = "text"
    /\ call.op = "text"
    /\ call.this = 1

TextReturned == call.op = "text" /\ ~call.error

\* C9: Line.text(text, side, distance, props) places the text's anchor at
\* exactly the given distance from the line's midpoint, perpendicular to the
\* line on the requested side.
C9_TextAtGivenDistance ==
    (TextReturned /\ call.argument3.type = "number") =>
        LET line == heap[call.this]
            offset == subtract(heap[call.result].props.position, Line_center(line))
            side == IF call.side = "undefined" THEN "left" ELSE call.side
        IN  /\ length(offset) = call.argument3.number
            /\ Direction(offset) = Direction(rotate(Line_vector(line), side))

\* C10: the Text returned by Line.text has the colour of the line it was
\* created from whenever the props passed to Line.text do not name a colour;
\* a colour named in the props replaces the inherited one.
C10_TextColor ==
    TextReturned =>
        LET line == heap[call.this]
            text == heap[call.result]
            props == SpreadOf(call.argument3)
        IN  ColorOf(text.props) =
                (IF Has(props, "color") THEN props.color ELSE ColorOf(line.props))

\* An orange line labelled once with props naming blue: the label is blue.
C10_Witness ==
    /\ TextReturned
    /\ ColorOf(heap[call.this].props) = "orange"
    /\ Has(SpreadOf(call.argument3), "color")
    /\ ColorOf(heap[call.result].props) = "blue"

\* The props the caller of text passed: the object among the arguments that
\* follow the side.
CallerProps ==
    IF call.argument3.type = "object" THEN call.argument3.object
    ELSE SpreadOf(call.argument4)

\* C21: the alignment of the Text returned by Line.text is the one
\* determineAlignment computes from the perpendicular offset, unless the props
\* passed by the caller name a horizontalAlignment or verticalAlignment, in
\* which case the caller's value is used (as the packet diagram relies on when
\* it passes middle/middle alignment).
C21_AlignmentOverridable ==
    TextReturned =>
        LET line == heap[call.this]
            text == heap[call.result]
            offset == subtract(text.props.position, Line_center(line))
            computed == determineAlignment(offset)
        IN  /\ text.props.horizontalAlignment =
                (IF Has(CallerProps, "horizontalAlignment")
                 THEN CallerProps.horizontalAlignment ELSE computed.horizontalAlignment)
            /\ text.props.verticalAlignment =
                (IF Has(CallerProps, "verticalAlignment")
                 THEN CallerProps.verticalAlignment ELSE computed.verticalAlignment)

\* C11: calling Line.shorten or Line.text on a degenerate line (start equal to
\* end, so its vector has zero length) fails with an error and returns no Line
\* or Text: the call throws, returns no object, and the heap holds after the
\* call exactly the objects it held before.
C11_DegenerateFails ==
    [][(/\ call'.op \in {"shorten", "text"}
        /\ IsZero(Line_vector(heap[call'.this])))
       => (call'.error /\ call'.result = 0 /\ heap' = heap)]_vars

\* The degenerate line (50,50)-(50,50) was asked for a label, and the call
\* threw.
C11_Witness ==
    /\ call.op = "text"
    /\ heap[call.this].props.start = P(50, 50)
    /\ heap[call.this].props.end = P(50, 50)
    /\ call.error
    /\ call.result = 0

\* The box contains the point, its border included.
Contains(box, point) ==
    /\ box.topLeft.x <= point.x /\ point.x <= box.topLeft.x + box.size.x
    /\ box.topLeft.y <= point.y /\ point.y <= box.topLeft.y + box.size.y

\* C17: the bounding box of a Line is BoundingBox(start, end): for every pair
\* of endpoints, in either order, it contains both endpoints and has
\* non-negative width and height.
C17_LineBoundingBox ==
    \A i \in DOMAIN heap :
        heap[i].kind = "line" =>
            LET start == heap[i].props.start
                end == heap[i].props.end
                box == Line_boundingBox(heap[i])
            IN  /\ box = BoundingBox(start, end)
                /\ box = BoundingBox(end, start)
                /\ Contains(box, start)
                /\ Contains(box, end)
                /\ box.size.x >= 0
                /\ box.size.y >= 0

\* A line drawn right to left and a slanted line: the box of the first starts
\* at its end point, the box of the second spans both directions.
C17_Witness ==
    \E i, j \in DOMAIN heap :
        /\ heap[i].kind = "line"
        /\ heap[i].props.start = P(100, 0)
        /\ heap[i].props.end = P(0, 0)
        /\ Line_boundingBox(heap[i]) = [topLeft |-> P(0, 0), size |-> P(100, 0)]
        /\ heap[j].kind = "line"
        /\ Line_boundingBox(heap[j]) = [topLeft |-> P(10, 20), size |-> P(30, 40)]

(***************************************************************************)
(* Markers (utility/marker), box anchors and shapes.                       *)
(***************************************************************************)

\* The physical length of a marker, by which an endpoint that carries one is
\* set back from the shape.
markerLength == 5 * Unit

\* Whether the marker (a single one or an array) names the given end.
HasMarker(marker, end) == \E i \in DOMAIN marker.of : marker.of[i] = end

markerOffset(marker, end) == IF HasMarker(marker, end) THEN markerLength ELSE 0

\* Box.pointAt(side, offset): the middle of the side, moved away from the box
\* by offset.
pointAt(box, side, offset) ==
    LET center == BoxCenter(box)
    IN  CASE side = "top" -> [x |-> center.x, y |-> box.topLeft.y - offset]
          [] side = "right" -> [x |-> box.topLeft.x + box.size.x + offset, y |-> center.y]
          [] side = "bottom" -> [x |-> center.x, y |-> box.topLeft.y + box.size.y + offset]
          [] side = "left" -> [x |-> box.topLeft.x - offset, y |-> center.y]

\* new Rectangle({ position, size }) and new Circle({ center, radius })
Rectangle(props) == [kind |-> "rectangle", props |-> props]

Circle(props) == [kind |-> "circle", props |-> props]

\* VisualElement.boundingBox().  The box of a text is its anchor: the extent of
\* its glyphs depends on the font.
boundingBox(element) ==
    CASE element.kind = "rectangle" ->
            [topLeft |-> element.props.position, size |-> element.props.size]
      [] element.kind = "circle" ->
            [topLeft |-> [x |-> element.props.center.x - element.props.radius,
                          y |-> element.props.center.y - element.props.radius],
             size |-> [x |-> 2 * element.props.radius, y |-> 2 * element.props.radius]]
      [] element.kind = "line" -> Line_boundingBox(element)
      [] element.kind = "text" ->
            BoundingBox(element.props.position, element.props.position)

\* Circle.pointTowards(target, offset): the point of the circumference on the
\* straight line to the target, moved towards the target by offset.
pointTowards(circle, target, offset) ==
    add(circle.props.center,
        normalize(subtract(target, circle.props.center), circle.props.radius + offset))

(***************************************************************************)
(* ConnectionLine and DiagonalLine                                         *)
(***************************************************************************)

\* props = {} when the argument is left out.
PropsOf(argument) == SpreadOf(argument)

\* props.marker ?? 'end': the default also replaces a marker key whose value is
\* undefined.
MarkerOrEnd(props) ==
    IF Has(props, "marker") /\ props.marker.kind # "undefined"
    THEN props.marker
    ELSE SingleMarker("end")

\* What a connector returns: a new line, or nothing when it throws.
ReturnedLine(line) == [error |-> FALSE, line |-> line]

ThrownLine == [error |-> TRUE]

\* new Line(...) in a connector: the constructor returns the line or throws.
ConstructedLine(line) ==
    IF RecognizedColor(line.props) THEN ReturnedLine(line) ELSE ThrownLine

\* Mutant: the start is anchored on the side whatever the marker.
ConnectionLine_StartOnSide(startElement, startSide, endElement, endSide, argument) ==
    LET props == PropsOf(argument)
        marker == MarkerOrEnd(props)
        start == pointAt(boundingBox(startElement), startSide, 0)
        end == pointAt(boundingBox(endElement), endSide, markerOffset(marker, "end"))
    IN  ConstructedLine(Line(Spread([start |-> start, end |-> end, marker |-> marker],
                                    props)))

\* Mutant: the offsets of the two ends are exchanged.
ConnectionLine_OffsetsExchanged(startElement, startSide, endElement, endSide, argument) ==
    LET props == PropsOf(argument)
        marker == MarkerOrEnd(props)
        start == pointAt(boundingBox(startElement), startSide, markerOffset(marker, "end"))
        end == pointAt(boundingBox(endElement), endSide, markerOffset(marker, "start"))
    IN  ConstructedLine(Line(Spread([start |-> start, end |-> end, marker |-> marker],
                                    props)))

\* Mutant: the default marker is 'start'.
ConnectionLine_DefaultStart(startElement, startSide, endElement, endSide, argument) ==
    LET props == PropsOf(argument)
        marker == IF Has(props, "marker") /\ props.marker.kind # "undefined"
                  THEN props.marker ELSE SingleMarker("start")
        start == pointAt(boundingBox(startElement), startSide, markerOffset(marker, "start"))
        end == pointAt(boundingBox(endElement), endSide, markerOffset(marker, "end"))
    IN  ConstructedLine(Line(Spread([start |-> start, end |-> end, marker |-> marker],
                                    props)))

ConnectionLine(startElement, startSide, endElement, endSide, argument) ==
    LET props == PropsOf(argument)
        marker == MarkerOrEnd(props)
        start == pointAt(boundingBox(startElement), startSide, markerOffset(marker, "start"))
        end == pointAt(boundingBox(endElement), endSide, markerOffset(marker, "end"))
    IN  ConstructedLine(Line(Spread([start |-> start, end |-> end, marker |-> marker],
                                    props)))

\* Mutant: no marker by default.
DiagonalLine_DefaultNone(startElement, endElement, argument) ==
    LET props == PropsOf(argument)
        marker == IF Has(props, "marker") /\ props.marker.kind # "undefined"
                  THEN props.marker ELSE MarkerArray(<<>>)
    IN  IF startElement.props.center = endElement.props.center THEN ThrownLine
        ELSE LET start == pointTowards(startElement, endElement.props.center,
                                       markerOffset(marker, "start"))
                 end == pointTowards(endElement, startElement.props.center,
                                     markerOffset(marker, "end"))
             IN  ConstructedLine(Line(Spread([start |-> start, end |-> end,
                                              marker |-> marker], props)))

\* Two circles with the same centre give pointTowards the zero vector, which
\* normalize rejects.
DiagonalLine(startElement, endElement, argument) ==
    LET props == PropsOf(argument)
        marker == MarkerOrEnd(props)
    IN  IF startElement.props.center = endElement.props.center THEN ThrownLine
        ELSE LET start == pointTowards(startElement, endElement.props.center,
                                       markerOffset(marker, "start"))
                 end == pointTowards(endElement, startElement.props.center,
                                     markerOffset(marker, "end"))
             IN  ConstructedLine(Line(Spread([start |-> start, end |-> end,
                                              marker |-> marker], props)))

(***************************************************************************)
(* A script that constructs shapes and connects them.                      *)
(***************************************************************************)

\* The script constructs at most MaxShapes shapes.
MaxShapes == 2

\* A tall box; a box level with it, 40 to its right; a flat box below that
\* one, 15 under it.
RectangleInputs ==
    { [position |-> P(0, -40), size |-> P(100, 80)],
      [position |-> P(140, -20), size |-> P(100, 40)],
      [position |-> P(140, 35), size |-> P(100, 10)] }

nodeRadius == 16

\* The two nodes of the scenario, and a node below the first one.
CircleInputs ==
    { [center |-> P(0, 0), radius |-> nodeRadius * Unit],
      [center |-> P(200, 0), radius |-> nodeRadius * Unit],
      [center |-> P(0, 150), radius |-> nodeRadius * Unit] }

BoxSides == {"top", "right", "bottom", "left"}

\* The props of the connectors: none; those of the two connectors of the
\* envelope diagram; those of the links of the topology; a marker key whose
\* value is undefined; a single marker at the start.
ConnectorArguments ==
    { UndefinedArgument,
      ObjectArgument([color |-> "green", marker |-> MarkerArray(<<>>)]),
      ObjectArgument([color |-> "green"]),
      ObjectArgument([color |-> "yellow", marker |-> MarkerArray(<<"start", "end">>)]),
      ObjectArgument([marker |-> UndefinedMarker]),
      ObjectArgument([color |-> "orange", marker |-> SingleMarker("start")]) }

\* The script constructs its shapes and ends by connecting two of them.
Connected == call.op \in {"ConnectionLine", "DiagonalLine"}

NewRectangleCall(props) ==
    /\ ~Connected
    /\ Len(heap) < MaxShapes
    /\ LET r == Constructed(heap, Rectangle(props))
       IN  /\ heap' = r.heap
           /\ call' = [op |-> "newRectangle", props |-> props, error |-> r.error,
                       result |-> r.result]
    /\ UNCHANGED generation

NewCircleCall(props) ==
    /\ ~Connected
    /\ Len(heap) < MaxShapes
    /\ LET r == Constructed(heap, Circle(props))
       IN  /\ heap' = r.heap
           /\ call' = [op |-> "newCircle", props |-> props, error |-> r.error,
                       result |-> r.result]
    /\ UNCHANGED generation

\* The line a connector returns is the value of the call; the script connects
\* shapes only, so the line is not kept in the heap.
ConnectionLineCall(startElement, startSide, endElement, endSide, argument) ==
    /\ ~Connected
    /\ heap[startElement].kind = "rectangle"
    /\ heap[endElement].kind = "rectangle"
    /\ call' = [op |-> "ConnectionLine",
                startElement |-> startElement, startSide |-> startSide,
                endElement |-> endElement, endSide |-> endSide,
                argument |-> argument,
                returned |-> ConnectionLine(heap[startElement], startSide,
                                            heap[endElement], endSide, argument)]
    /\ UNCHANGED <<heap, generation>>

DiagonalLineCall(startElement, endElement, argument) ==
    /\ ~Connected
    /\ heap[startElement].kind = "circle"
    /\ heap[endElement].kind = "circle"
    /\ call' = [op |-> "DiagonalLine",
                startElement |-> startElement, endElement |-> endElement,
                argument |-> argument,
                returned |-> DiagonalLine(heap[startElement], heap[endElement], argument)]
    /\ UNCHANGED <<heap, generation>>

NextConnect ==
    \/ \E props \in RectangleInputs : NewRectangleCall(props)
    \/ \E props \in CircleInputs : NewCircleCall(props)
    \/ \E startElement \in DOMAIN heap, endElement \in DOMAIN heap,
          startSide \in BoxSides, endSide \in BoxSides, argument \in ConnectorArguments :
          ConnectionLineCall(startElement, startSide, endElement, endSide, argument)
    \/ \E startElement \in DOMAIN heap, endElement \in DOMAIN heap,
          argument \in ConnectorArguments :
          DiagonalLineCall(startElement, endElement, argument)

SpecConnect == Init /\ [][NextConnect]_vars

(***************************************************************************)
(* Claims about the connectors (checked under SpecConnect).                *)
(***************************************************************************)

ConnectionReturned == call.op = "ConnectionLine" /\ ~call.returned.error

DiagonalReturned == call.op = "DiagonalLine" /\ ~call.returned.error

\* How far the point lies outside the box, measured across the given side.
OutsideBy(point, box, side) ==
    CASE side = "top" -> box.topLeft.y - point.y
      [] side = "right" -> point.x - (box.topLeft.x + box.size.x)
      [] side = "bottom" -> point.y - (box.topLeft.y + box.size.y)
      [] side = "left" -> box.topLeft.x - point.x

\* The point lies between the two corners of the side, measured along it.
AlongSide(point, box, side) ==
    IF side \in {"top", "bottom"}
    THEN box.topLeft.x <= point.x /\ point.x <= box.topLeft.x + box.size.x
    ELSE box.topLeft.y <= point.y /\ point.y <= box.topLeft.y + box.size.y

OnSide(point, box, side) == AlongSide(point, box, side) /\ OutsideBy(point, box, side) = 0

\* The distance between the two facing edges, when the start side faces the
\* end side; -1 when the sides do not face each other.
FacingDistance(startBox, startSide, endBox, endSide) ==
    CASE startSide = "right" /\ endSide = "left" ->
            endBox.topLeft.x - (startBox.topLeft.x + startBox.size.x)
      [] startSide = "left" /\ endSide = "right" ->
            startBox.topLeft.x - (endBox.topLeft.x + endBox.size.x)
      [] startSide = "bottom" /\ endSide = "top" ->
            endBox.topLeft.y - (startBox.topLeft.y + startBox.size.y)
      [] startSide = "top" /\ endSide = "bottom" ->
            startBox.topLeft.y - (endBox.topLeft.y + endBox.size.y)
      [] OTHER -> -1

\* The middles of the two sides lie opposite each other.
SidesAligned(startBox, startSide, endBox) ==
    IF startSide \in {"left", "right"}
    THEN BoxCenter(startBox).y = BoxCenter(endBox).y
    ELSE BoxCenter(startBox).x = BoxCenter(endBox).x

\* A connection between facing sides, L > 2m apart, with a marker at each end.
FacingWithBothMarkers ==
    /\ ConnectionReturned
    /\ Has(PropsOf(call.argument), "marker")
    /\ PropsOf(call.argument).marker = MarkerArray(<<"start", "end">>)
    /\ FacingDistance(boundingBox(heap[call.startElement]), call.startSide,
                      boundingBox(heap[call.endElement]), call.endSide) > 2 * markerLength

\* C3 (as stated): for a ConnectionLine between the facing sides of two boxes
\* whose facing edges are a distance L apart, with a marker of length m at each
\* end and L > 2m, the resulting line's length is L - 2m.
C3_LengthAsStated ==
    FacingWithBothMarkers =>
        Line_length(call.returned.line) =
            FacingDistance(boundingBox(heap[call.startElement]), call.startSide,
                           boundingBox(heap[call.endElement]), call.endSide)
                - 2 * markerLength

\* C3 (amended): the same for two boxes whose facing sides have their middles
\* opposite each other (the boxes are level, or one is straight above the
\* other); between boxes that are not, the line is slanted and longer.
C3_Length ==
    FacingWithBothMarkers =>
        LET startBox == boundingBox(heap[call.startElement])
            endBox == boundingBox(heap[call.endElement])
            L == FacingDistance(startBox, call.startSide, endBox, call.endSide)
            aligned == SidesAligned(startBox, call.startSide, endBox)
        IN  /\ aligned => Line_length(call.returned.line) = L - 2 * markerLength
            /\ ~aligned => Line_length(call.returned.line) > L - 2 * markerLength

\* The two level boxes, 40 apart: the line between them is 30 long.
C3_Witness ==
    /\ FacingWithBothMarkers
    /\ call.startSide = "right"
    /\ heap[call.startElement].props.position = P(0, -40)
    /\ heap[call.endElement].props.position = P(140, -20)
    /\ Line_length(call.returned.line) = 30 * Unit

\* C4: ConnectionLine insets an endpoint by the marker's physical length only
\* at an end that carries a marker: with the default marker 'end' the start
\* lies exactly on the requested side of the start element's bounding box
\* while the end is inset, and with marker [] both endpoints lie exactly on
\* the requested sides.
C4_InsetOnlyAtMarker ==
    ConnectionReturned =>
        LET props == PropsOf(call.argument)
            line == call.returned.line
            startBox == boundingBox(heap[call.startElement])
            endBox == boundingBox(heap[call.endElement])
            startOnSide == OnSide(line.props.start, startBox, call.startSide)
            endOnSide == OnSide(line.props.end, endBox, call.endSide)
            startInset == /\ AlongSide(line.props.start, startBox, call.startSide)
                          /\ OutsideBy(line.props.start, startBox, call.startSide) = markerLength
            endInset == /\ AlongSide(line.props.end, endBox, call.endSide)
                        /\ OutsideBy(line.props.end, endBox, call.endSide) = markerLength
        IN  /\ ~Has(props, "marker") => (startOnSide /\ endInset)
            /\ (Has(props, "marker") /\ props.marker = MarkerArray(<<>>))
                => (startOnSide /\ endOnSide)
            /\ (Has(props, "marker") /\ props.marker.kind # "undefined")
                => /\ IF HasMarker(props.marker, "start") THEN startInset ELSE startOnSide
                   /\ IF HasMarker(props.marker, "end") THEN endInset ELSE endOnSide

\* The second connector of the envelope diagram: props { color: 'green' },
\* from the right side of a box to the left side of the next.
C4_Witness ==
    /\ ConnectionReturned
    /\ call.argument = ObjectArgument([color |-> "green"])
    /\ call.startSide = "right"
    /\ call.endSide = "left"
    /\ call.startElement # call.endElement
    /\ OnSide(call.returned.line.props.start, boundingBox(heap[call.startElement]), "right")
    /\ OutsideBy(call.returned.line.props.end, boundingBox(heap[call.endElement]), "left")
            = markerLength

\* By how much each end of the returned line is set back from its shape: from
\* the side of the box (ConnectionLine), from the circumference (DiagonalLine).
StartSetBack ==
    IF call.op = "ConnectionLine"
    THEN OutsideBy(call.returned.line.props.start,
                   boundingBox(heap[call.startElement]), call.startSide)
    ELSE length(subtract(call.returned.line.props.start,
                         heap[call.startElement].props.center))
            - heap[call.startElement].props.radius

EndSetBack ==
    IF call.op = "ConnectionLine"
    THEN OutsideBy(call.returned.line.props.end,
                   boundingBox(heap[call.endElement]), call.endSide)
    ELSE length(subtract(call.returned.line.props.end,
                         heap[call.endElement].props.center))
            - heap[call.endElement].props.radius

TwoNodesConnected ==
    /\ DiagonalReturned
    /\ heap[call.startElement].props = [center |-> P(0, 0), radius |-> nodeRadius * Unit]
    /\ heap[call.endElement].props = [center |-> P(200, 0), radius |-> nodeRadius * Unit]

\* C6 (as stated): two circles of radius 16 centred at (0,0) and (200,0),
\* connected via DiagonalLine with no further props given, produce a line whose
\* start is exactly (16,0) and whose end is exactly (184,0).
C6_ScenarioAsStated ==
    (TwoNodesConnected /\ call.argument = UndefinedArgument) =>
        /\ call.returned.line.props.start = P(16, 0)
        /\ call.returned.line.props.end = P(184, 0)

\* C6 (amended): connected with the props { marker: [] } the line runs from
\* exactly (16,0) to exactly (184,0); with no props given the default marker
\* 'end' sets the end back by the marker's length, and the line runs from
\* (16,0) to (184 - m, 0).
C6_Scenario ==
    TwoNodesConnected =>
        LET props == PropsOf(call.argument)
            line == call.returned.line
        IN  /\ (Has(props, "marker") /\ props.marker = MarkerArray(<<>>))
                => (line.props.start = P(16, 0) /\ line.props.end = P(184, 0))
            /\ call.argument = UndefinedArgument
                => /\ line.props.start = P(16, 0)
                   /\ line.props.end = [x |-> 184 * Unit - markerLength, y |-> 0]

\* The scenario with no props given: the end is at (179, 0).
C6_Witness ==
    /\ TwoNodesConnected
    /\ call.argument = UndefinedArgument
    /\ call.returned.line.props.start = P(16, 0)
    /\ call.returned.line.props.end = P(179, 0)

\* this.props.marker: undefined when the key is absent.
MarkerOf(props) == IF Has(props, "marker") THEN props.marker ELSE UndefinedMarker

\* C27: the line a connector returns carries the marker its endpoint offsets
\* were computed with, and its start and end are the computed anchor points,
\* for every props object, also one with the key marker present and undefined.
C27_MarkerOfOffsets ==
    LET marker == MarkerOrEnd(PropsOf(call.argument))
        line == call.returned.line
    IN  /\ ConnectionReturned =>
               /\ MarkerOf(line.props) = marker
               /\ line.props.start =
                      pointAt(boundingBox(heap[call.startElement]), call.startSide,
                              markerOffset(marker, "start"))
               /\ line.props.end =
                      pointAt(boundingBox(heap[call.endElement]), call.endSide,
                              markerOffset(marker, "end"))
        /\ DiagonalReturned =>
               /\ MarkerOf(line.props) = marker
               /\ line.props.start =
                      pointTowards(heap[call.startElement],
                                   heap[call.endElement].props.center,
                                   markerOffset(marker, "start"))
               /\ line.props.end =
                      pointTowards(heap[call.endElement],
                                   heap[call.startElement].props.center,
                                   markerOffset(marker, "end"))

(***************************************************************************)
(* Serialization: rounding, the marker registry, encode and printSVG.      *)
(***************************************************************************)

\* Grid steps per thousandth of a diagram unit.
Milli == Unit \div 1000

\* Math.round(x * 1000) / 1000: the nearest thousandth, a tie going up.
Round3(x) == ((x + Milli \div 2) \div Milli) * Milli

\* Point.round3()
round3(p) == [x |-> Round3(p.x), y |-> Round3(p.y)]

\* this.props.children: none when the key is absent.
ChildrenOf(props) == IF Has(props, "children") THEN props.children ELSE <<>>

\* The definition a marker of a kind and a colour refers to.
MarkerDefinition(kind, color) == [kind |-> kind, color |-> color]

Registered(reg, definition) == \E i \in DOMAIN reg : reg[i] = definition

\* Mutant: every reference declares its definition.
Register_EveryReference(reg, definition) == Append(reg, definition)

\* A definition is declared the first time it is referenced.
Register(reg, definition) ==
    IF Registered(reg, definition) THEN reg ELSE Append(reg, definition)

RECURSIVE RegisterAll(_, _, _)
RegisterAll(reg, markers, color) ==
    IF markers = <<>> THEN reg
    ELSE RegisterAll(Register(reg, MarkerDefinition(Head(markers), color)),
                     Tail(markers), color)

\* markerAttributes(length, marker, color): one reference for each marker of
\* the line, each registered; len is what the function length yields.
markerAttributes(len, marker, color, reg) ==
    [attributes |-> [i \in DOMAIN marker.of |-> MarkerDefinition(marker.of[i], color)],
     length |-> len,
     registry |-> RegisterAll(reg, marker.of, color)]

\* Markup is a sequence of tags.  An opening tag carries its attributes.
CloseTag(tag) == [type |-> "close", tag |-> tag]

\* What children(prefix) adds to the prefix of a nested element.
Indentation == "    "

RECURSIVE encode(_, _, _)

\* The markup of the elements in order; the registry is threaded through.
RECURSIVE encodeAll(_, _, _)
encodeAll(list, prefix, reg) ==
    IF list = <<>> THEN [markup |-> <<>>, registry |-> reg]
    ELSE LET first == encode(Head(list), prefix, reg)
             rest == encodeAll(Tail(list), prefix, first.registry)
         IN  [markup |-> first.markup \o rest.markup, registry |-> rest.registry]

\* VisualElement.children(prefix)
children(this, prefix, reg) ==
    encodeAll(ChildrenOf(this.props), prefix \o Indentation, reg)

\* The opening tag of a line with the given endpoints.
LineTag(this, prefix, start, end, attributes) ==
    [type |-> "open", tag |-> "line", prefix |-> prefix, color |-> ColorOf(this.props),
     x1 |-> start.x, y1 |-> start.y, x2 |-> end.x, y2 |-> end.y,
     markers |-> attributes]

\* Mutant: the rounded endpoints are stored in the line.
Line_encode_RoundsStored(this, prefix, reg) ==
    LET start == round3(this.props.start)
        end == round3(this.props.end)
        markers == markerAttributes(Line_length(this), MarkerOf(this.props),
                                    ColorOf(this.props), reg)
        inner == children(this, prefix, markers.registry)
    IN  [this |-> Line(Spread(this.props, [start |-> start, end |-> end])),
         markup |-> <<LineTag(this, prefix, start, end, markers.attributes)>>
                        \o inner.markup \o <<CloseTag("line")>>,
         length |-> markers.length,
         registry |-> inner.registry]

\* Mutant: the children follow the closing tag.
Line_encode_ChildrenAfter(this, prefix, reg) ==
    LET start == round3(this.props.start)
        end == round3(this.props.end)
        markers == markerAttributes(Line_length(this), MarkerOf(this.props),
                                    ColorOf(this.props), reg)
        inner == children(this, prefix, markers.registry)
    IN  [this |-> this,
         markup |-> <<LineTag(this, prefix, start, end, markers.attributes)>>
                        \o <<CloseTag("line")>> \o inner.markup,
         length |-> markers.length,
         registry |-> inner.registry]

\* Line._encode(prefix, this.props).  start and end are locals of the method:
\* the object after the call (this) is the object before it.
Line_encode(this, prefix, reg) ==
    LET start == round3(this.props.start)
        end == round3(this.props.end)
        markers == markerAttributes(Line_length(this), MarkerOf(this.props),
                                    ColorOf(this.props), reg)
        inner == children(this, prefix, markers.registry)
    IN  [this |-> this,
         markup |-> <<LineTag(this, prefix, start, end, markers.attributes)>>
                        \o inner.markup \o <<CloseTag("line")>>,
         length |-> markers.length,
         registry |-> inner.registry]

\* The tag names of the other elements.
TagOf(element) ==
    CASE element.kind = "rectangle" -> "rect"
      [] element.kind = "circle" -> "circle"
      [] element.kind = "text" -> "text"

\* encode(prefix) of any element: its opening tag, its children, its closing tag.
encode(element, prefix, reg) ==
    IF element.kind = "line" THEN Line_encode(element, prefix, reg)
    ELSE LET inner == children(element, prefix, reg)
         IN  [this |-> element,
              markup |-> <<[type |-> "open", tag |-> TagOf(element), prefix |-> prefix,
                            color |-> ColorOf(element.props)]>>
                             \o inner.markup \o <<CloseTag(TagOf(element))>>,
              registry |-> inner.registry]

Max(a, b) == IF a > b THEN a ELSE b

\* The smallest box that contains both boxes.
Encompass(a, b) ==
    LET left == Min(a.topLeft.x, b.topLeft.x)
        top == Min(a.topLeft.y, b.topLeft.y)
        right == Max(a.topLeft.x + a.size.x, b.topLeft.x + b.size.x)
        bottom == Max(a.topLeft.y + a.size.y, b.topLeft.y + b.size.y)
    IN  [topLeft |-> [x |-> left, y |-> top], size |-> [x |-> right - left, y |-> bottom - top]]

\* The union bounding box of a non-empty sequence of elements.
RECURSIVE UnionBox(_)
UnionBox(list) ==
    IF Len(list) = 1 THEN boundingBox(list[1])
    ELSE Encompass(boundingBox(Head(list)), UnionBox(Tail(list)))

\* The fixed margin between the union bounding box and the viewBox.
margin == 1 * Unit

\* The marker-definitions block: one definition for each entry of the registry.
RECURSIVE MarkerTags(_)
MarkerTags(reg) ==
    IF reg = <<>> THEN <<>>
    ELSE <<[type |-> "open", tag |-> "marker", definition |-> Head(reg)],
           CloseTag("marker")>> \o MarkerTags(Tail(reg))

DefinitionsBlock(reg) ==
    <<[type |-> "open", tag |-> "defs"]>> \o MarkerTags(reg) \o <<CloseTag("defs")>>

\* Mutant: the viewBox is the union bounding box.
printSVG_NoMargin(list) ==
    LET box == UnionBox(list)
        body == encodeAll(list, Indentation, <<>>)
    IN  [viewBox |-> box,
         markup |-> <<[type |-> "open", tag |-> "svg", viewBox |-> box]>>
                        \o body.markup \o DefinitionsBlock(body.registry)
                        \o <<CloseTag("svg")>>,
         definitions |-> body.registry]

\* printSVG(...elements): the registry starts empty; the viewBox is the union
\* bounding box enlarged by the margin; the root element holds the markup of
\* each element in argument order and the marker-definitions block.
printSVG(list) ==
    LET box == UnionBox(list)
        viewBox == [topLeft |-> [x |-> box.topLeft.x - margin, y |-> box.topLeft.y - margin],
                    size |-> [x |-> box.size.x + 2 * margin, y |-> box.size.y + 2 * margin]]
        body == encodeAll(list, Indentation, <<>>)
    IN  [viewBox |-> viewBox,
         markup |-> <<[type |-> "open", tag |-> "svg", viewBox |-> viewBox]>>
                        \o body.markup \o DefinitionsBlock(body.registry)
                        \o <<CloseTag("svg")>>,
         definitions |-> body.registry]

(***************************************************************************)
(* A script that constructs elements, serializes lines and prints.         *)
(***************************************************************************)

\* A child label and a child line with a marker of its own.
LineChildren ==
    << [kind |-> "text", props |-> [position |-> P(25, 28), text |-> "label"]],
       Line([start |-> P(25, 40), end |-> P(25, 50), color |-> "orange",
             marker |-> SingleMarker("start")]) >>

\* A line whose end is not a multiple of a thousandth; the vertical line with a
\* marker at both ends; a slanted line with children; a line whose colour the
\* stylesheet does not know.
DiagramLineInputs ==
    { [start |-> P(0, 0), end |-> [x |-> 30 * Unit + 6, y |-> 0], color |-> "green",
       marker |-> SingleMarker("end")],
      [start |-> P(0, 0), end |-> P(0, -50), color |-> "yellow",
       marker |-> MarkerArray(<<"start", "end">>)],
      [start |-> P(10, 20), end |-> P(40, 60), color |-> "green",
       marker |-> SingleMarker("end"), children |-> LineChildren],
      [start |-> P(0, 0), end |-> P(100, 0), color |-> "teal"] }

\* The rectangle of the printing scenario, a blue one level with it, and one
\* whose colour the stylesheet does not know.
DiagramRectangleInputs ==
    { [position |-> P(0, 0), size |-> P(50, 30)],
      [position |-> P(90, 0), size |-> P(50, 30), color |-> "blue"],
      [position |-> P(0, 0), size |-> P(50, 30), color |-> "teal"] }

DiagramCircleInputs ==
    { [center |-> P(0, 0), radius |-> nodeRadius * Unit],
      [center |-> P(200, 0), radius |-> nodeRadius * Unit, color |-> "teal"] }

DiagramTextArguments ==
    { <<UndefinedArgument, UndefinedArgument>>,
      <<ObjectArgument([color |-> "teal"]), UndefinedArgument>> }

DiagramConnectorArguments ==
    { UndefinedArgument,
      ObjectArgument([color |-> "teal"]) }

\* The script ends when it has printed.
Printed == output # <<>>

\* element.encode(prefix) on a line, as the serializer calls it.
EncodeCall(this) ==
    /\ heap[this].kind = "line"
    /\ LET r == Line_encode(heap[this], "", registry)
       IN  /\ heap' = [heap EXCEPT ![this] = r.this]
           /\ registry' = r.registry
           /\ call' = [op |-> "encode", this |-> this, error |-> FALSE,
                       markup |-> r.markup, length |-> r.length]
    /\ UNCHANGED <<dnsResponseStore, lookups, elements, pc, output>>

\* printSVG(...elements) with every element the script has constructed.
PrintSVGCall ==
    /\ heap # <<>>
    /\ LET document == printSVG(heap)
       IN  /\ registry' = document.definitions
           /\ output' = Append(output, document)
    /\ call' = [op |-> "printSVG", error |-> FALSE]
    /\ UNCHANGED <<dnsResponseStore, lookups, heap, elements, pc>>

NextDiagram ==
    \/ \E props \in DiagramLineInputs :
          ~Printed /\ Len(heap) < MaxShapes /\ NewLineCall(props)
    \/ \E props \in DiagramRectangleInputs : ~Printed /\ NewRectangleCall(props)
    \/ \E props \in DiagramCircleInputs : ~Printed /\ NewCircleCall(props)
    \/ \E this \in DOMAIN heap :
          ~Printed /\ Len(heap) < MaxShapes /\ ShortenCall(this, 10 * Unit, <<>>)
    \/ \E this \in DOMAIN heap, arguments \in DiagramTextArguments :
          ~Printed /\ Len(heap) < MaxShapes /\ TextCall(this, "left", arguments)
    \/ \E startElement \in DOMAIN heap, endElement \in DOMAIN heap,
          argument \in DiagramConnectorArguments :
          ~Printed /\ ConnectionLineCall(startElement, "right", endElement, "left", argument)
    \/ \E startElement \in DOMAIN heap, endElement \in DOMAIN heap,
          argument \in DiagramConnectorArguments :
          ~Printed /\ DiagonalLineCall(startElement, endElement, argument)
    \/ \E this \in DOMAIN heap : ~Printed /\ EncodeCall(this)
    \/ ~Printed /\ PrintSVGCall

SpecDiagram == Init /\ [][NextDiagram]_vars

(***************************************************************************)
(* Claims about serialization and construction (checked under SpecDiagram). *)
(***************************************************************************)

Range(sequence) == {sequence[i] : i \in DOMAIN sequence}

NoDuplicates(sequence) ==
    \A i, j \in DOMAIN sequence : sequence[i] = sequence[j] => i = j

\* The marker definitions the line tags of the markup refer to.
Referenced(markup) ==
    UNION { Range(markup[i].markers) :
                i \in {n \in DOMAIN markup : markup[n].type = "open" /\ markup[n].tag = "line"} }

\* The marker definitions the markup declares, in order.
Declared(markup) ==
    SelectSeq(markup, LAMBDA t : t.type = "open" /\ t.tag = "marker")

\* C13: after any sequence of line encodings within one diagram generation,
\* the marker definitions hold exactly one definition for each distinct
\* (marker kind, colour) pair referenced so far: an encoding adds the pairs it
\* refers to and that are not yet registered, encoding a line with an already
\* registered pair adds no definition and raises no error, and a printed
\* document declares each pair its lines refer to exactly once.
C13_OneDefinitionPerPair ==
    [][/\ call'.op = "encode"
            => /\ ~call'.error
               /\ NoDuplicates(registry')
               /\ Range(registry') = Range(registry) \cup Referenced(call'.markup)
               /\ Referenced(call'.markup) \subseteq Range(registry)
                    => registry' = registry
       /\ call'.op = "printSVG"
            => LET markup == output'[Len(output')].markup
               IN  /\ NoDuplicates(registry')
                   /\ Range(registry') = Referenced(markup)
                   /\ Len(Declared(markup)) = Cardinality(Referenced(markup))
                   /\ {Declared(markup)[i].definition : i \in DOMAIN Declared(markup)}
                        = Referenced(markup)]_vars

\* The line with children was encoded first (its own pair, then its child's),
\* then the plain green line with the marker 'end': the pair was registered,
\* and the registry is what it was.
C13_Witness ==
    /\ call.op = "encode"
    /\ ~call.error
    /\ heap[call.this].props.end = [x |-> 30 * Unit + 6, y |-> 0]
    /\ Referenced(call.markup) = {MarkerDefinition("end", "green")}
    /\ registry = <<MarkerDefinition("end", "green"), MarkerDefinition("start", "orange")>>

\* C14: the marker registry is written only during serialization: constructing
\* lines with new Line, ConnectionLine, DiagonalLine, Line.shorten or Line.text
\* leaves the registry unchanged, and only encoding a line registers its
\* markers.
C14_RegistryWrittenByEncode ==
    [][/\ registry' # registry => call'.op \in {"encode", "printSVG"}
       /\ call'.op \in {"newLine", "shorten", "text", "ConnectionLine", "DiagonalLine"}
            => registry' = registry
       /\ call'.op = "encode" => Referenced(call'.markup) \subseteq Range(registry')]_vars

\* The green line was encoded and then shortened: the registry holds what the
\* encoding registered, once.
C14_Witness ==
    /\ call.op = "shorten"
    /\ ~call.error
    /\ heap[call.result].props.marker = SingleMarker("end")
    /\ registry = <<MarkerDefinition("end", "green")>>

Unrecognized(color) == color # UndefinedColor /\ color \notin Palette

\* C16: constructing an element (new Line, new Text, new Rectangle,
\* ConnectionLine, DiagonalLine) with a colour that is not one of the
\* stylesheet's palette names fails with an error at construction time, before
\* any serialization: the call throws and returns nothing, and no element of
\* the heap has such a colour.
C16_UnrecognizedColorFails ==
    /\ \A i \in DOMAIN heap : ~Unrecognized(ColorOf(heap[i].props))
    /\ (call.op \in {"newLine", "newRectangle", "newCircle"}
            /\ Unrecognized(ColorOf(call.props)))
        => (call.error /\ call.result = 0)
    /\ (call.op = "text" /\ ~IsZero(Line_vector(heap[call.this]))
            /\ Unrecognized(ColorOf(SpreadOf(call.argument3))))
        => (call.error /\ call.result = 0)
    /\ (call.op \in {"ConnectionLine", "DiagonalLine"}
            /\ Unrecognized(ColorOf(PropsOf(call.argument))))
        => call.returned.error

\* A ConnectionLine between two rectangles with the props { color: 'teal' }
\* threw, and nothing was serialized.
C16_Witness ==
    /\ call.op = "ConnectionLine"
    /\ call.argument = ObjectArgument([color |-> "teal"])
    /\ call.startElement # call.endElement
    /\ call.returned.error
    /\ registry = <<>>
    /\ output = <<>>

\* C18: rounding to three decimal places happens only in the emitted markup:
\* encoding a line leaves its stored start and end unrounded and unchanged, so
\* vector(), length(), boundingBox(), shorten and text computed after an encode
\* give the same results as before it, and the length passed to the marker
\* attributes is the unrounded length; the coordinates of the tag are rounded.
C18_RoundingOnlyInMarkup ==
    [][call'.op = "encode"
        => LET this == call'.this
               before == heap[this]
               after == heap'[this]
               tag == call'.markup[1]
           IN  /\ heap' = heap
               /\ after.props.start = before.props.start
               /\ after.props.end = before.props.end
               /\ Line_vector(after) = Line_vector(before)
               /\ Line_length(after) = Line_length(before)
               /\ Line_boundingBox(after) = Line_boundingBox(before)
               /\ ~IsZero(Line_vector(before))
                    => /\ Line_shorten(heap', this, 10 * Unit, <<>>)
                            = Line_shorten(heap, this, 10 * Unit, <<>>)
                       /\ Line_text(heap', this, "label", "left", UndefinedArgument)
                            = Line_text(heap, this, "label", "left", UndefinedArgument)
               /\ call'.length = Line_length(before)
               /\ tag.x1 = Round3(before.props.start.x)
               /\ tag.y1 = Round3(before.props.start.y)
               /\ tag.x2 = Round3(before.props.end.x)
               /\ tag.y2 = Round3(before.props.end.y)]_vars

\* The line that ends at x = 30.0006 was encoded: the tag says 30.001, the
\* line and the length passed on say 30.0006.
C18_Witness ==
    /\ call.op = "encode"
    /\ heap[call.this].props.end = [x |-> 30 * Unit + 6, y |-> 0]
    /\ call.markup[1].x2 = 30 * Unit + 10
    /\ call.length = 30 * Unit + 6

\* The number of elements open after the first n tags.
Depth(markup, n) ==
    Cardinality({i \in 1..n : markup[i].type = "open"})
        - Cardinality({i \in 1..n : markup[i].type = "close"})

\* Every tag is closed at the end and not before.
Balanced(markup) ==
    /\ Depth(markup, Len(markup)) = 0
    /\ \A n \in 1..(Len(markup) - 1) : Depth(markup, n) > 0

\* The markup of each element of the list, one after the other.
RECURSIVE Concatenated(_, _)
Concatenated(list, prefix) ==
    IF list = <<>> THEN <<>>
    ELSE encode(Head(list), prefix, <<>>).markup \o Concatenated(Tail(list), prefix)

\* C19: encoding is recursive and balanced: the markup of a line consists of
\* its opening <line ...> tag, followed by the serialized markup of each of its
\* children in order, followed by the closing </line> tag, so every child's
\* markup lies strictly between its parent's opening and closing tags.
C19_EncodeNested ==
    call.op = "encode" =>
        LET markup == call.markup
            kids == ChildrenOf(heap[call.this].props)
            first == markup[1]
            last == markup[Len(markup)]
            between == SubSeq(markup, 2, Len(markup) - 1)
        IN  /\ Len(markup) >= 2
            /\ first.type = "open" /\ first.tag = "line"
            /\ last.type = "close" /\ last.tag = "line"
            /\ between = Concatenated(kids, Indentation)
            /\ Balanced(markup)
            /\ \A k \in DOMAIN kids : Balanced(encode(kids[k], Indentation, <<>>).markup)

\* The line with a label and a line as children: six tags, the label's two
\* before the child line's two, all four inside.
C19_Witness ==
    /\ call.op = "encode"
    /\ Len(ChildrenOf(heap[call.this].props)) = 2
    /\ Len(call.markup) = 6
    /\ call.markup[2].tag = "text" /\ call.markup[2].type = "open"
    /\ call.markup[3].tag = "text" /\ call.markup[3].type = "close"
    /\ call.markup[4].tag = "line" /\ call.markup[4].type = "open"
    /\ call.markup[5].tag = "line" /\ call.markup[5].type = "close"

\* The box enlarged by the distance on every side.
Enlarged(box, distance) ==
    [topLeft |-> [x |-> box.topLeft.x - distance, y |-> box.topLeft.y - distance],
     size |-> [x |-> box.size.x + 2 * distance, y |-> box.size.y + 2 * distance]]

\* The outer box contains the inner box.
Encloses(outer, inner) ==
    /\ Contains(outer, inner.topLeft)
    /\ Contains(outer, add(inner.topLeft, inner.size))

\* C20: printSVG over a single Rectangle at position (0,0) with size (50,30)
\* produces a document whose viewBox contains the rectangle enlarged by the
\* fixed margin on every side; in general the viewBox of printSVG contains the
\* bounding box of every top-level element passed to it.
C20_ViewBoxContainsElements ==
    Printed =>
        LET viewBox == output[1].viewBox
        IN  /\ heap = <<Rectangle([position |-> P(0, 0), size |-> P(50, 30)])>>
                => Encloses(viewBox, Enlarged([topLeft |-> P(0, 0), size |-> P(50, 30)],
                                              margin))
            /\ \A i \in DOMAIN heap : Encloses(viewBox, boundingBox(heap[i]))

\* The scenario: the single rectangle was printed.
C20_Witness ==
    /\ Printed
    /\ call.op = "printSVG"
    /\ heap = <<Rectangle([position |-> P(0, 0), size |-> P(50, 30)])>>
    /\ output[1].viewBox.topLeft = [x |-> -margin, y |-> -margin]
    /\ output[1].viewBox.size = [x |-> 50 * Unit + 2 * margin, y |-> 30 * Unit + 2 * margin]

(***************************************************************************)
(* Text layout (elements/text) and the constants printEnvelope imports.    *)
(***************************************************************************)

\* The stroke width of the stylesheet, 2.5.
strokeWidth == (25 * Unit) \div 10

textMargin == [x |-> 12 * Unit, y |-> 10 * Unit]

doubleTextMargin == add(textMargin, textMargin)

\* The fixed height of a line of text and the estimated width of a character.
lineHeight == 20 * Unit

characterWidth == 8 * Unit

calculateTextHeight(lines) == Len(lines) * lineHeight

\* The length of the longest line.
RECURSIVE Longest(_)
Longest(lines) ==
    IF lines = <<>> THEN 0 ELSE Max(Len(Head(lines)), Longest(Tail(lines)))

estimateTextSizeWithMargin(lines) ==
    add([x |-> Longest(lines) * characterWidth, y |-> calculateTextHeight(lines)],
        doubleTextMargin)

\* An array argument the caller may leave out.
ArrayArgument(array) == [type |-> "array", array |-> array]

\* Rectangle.text(lines, alignment, margin): a text inside the rectangle, in
\* its middle by default, at the margin from the borders the alignment names.
Rectangle_text(h, this, lines, alignment, marginArgument) ==
    LET box == boundingBox(h[this])
        center == BoxCenter(box)
        aligned == IF alignment.type = "object" THEN alignment.object
                   ELSE [horizontalAlignment |-> "center", verticalAlignment |-> "center"]
        inset == IF marginArgument.type = "object" THEN marginArgument.object
                 ELSE textMargin
        x == CASE aligned.horizontalAlignment = "left" -> box.topLeft.x + inset.x
               [] aligned.horizontalAlignment = "right" ->
                    box.topLeft.x + box.size.x - inset.x
               [] OTHER -> center.x
        y == CASE aligned.verticalAlignment = "top" -> box.topLeft.y + inset.y
               [] aligned.verticalAlignment = "bottom" ->
                    box.topLeft.y + box.size.y - inset.y
               [] OTHER -> center.y
    IN  Constructed(h, [kind |-> "text",
                        props |-> Spread([position |-> [x |-> x, y |-> y], text |-> lines,
                                          color |-> ColorOf(h[this].props)],
                                         aligned)])

(***************************************************************************)
(* printEnvelope                                                           *)
(***************************************************************************)

gap == 40

size == estimateTextSizeWithMargin(<<"Mail client", "of", "alice@example.org">>)

messageWidth == 240

envelopeMargin == 2 * strokeWidth

alignment == [horizontalAlignment |-> "left", verticalAlignment |-> "top"]

messageTitle == "Message"

messageLines == <<"From: Alice <alice@example.org>", "To: Bob <bob@example.com>",
                  "Cc: Carol <carol@example.com>">>

envelopeTitle == "Envelope"

\* The arguments the pages call printEnvelope with.
LeftInputs == {<<"Mail client of", "alice@example.org">>}

RightInputs ==
    {<<"Outgoing", "mail server", "of example.org">>,
     <<"Incoming", "mail server", "of example.com">>}

EnvelopeInputs ==
    {<<"MAIL FROM:<alice@example.org>", "RCPT TO:<bob@example.com>">>,
     <<"MAIL FROM:<alice@example.org>", "RCPT TO:<bob@example.com>",
       "RCPT TO:<carol@example.com>">>,
     <<"MAIL FROM:<admin@ietf.org>">>,
     <<>>}

MessageInputs ==
    {UndefinedArgument,
     ArrayArgument(<<"From: Alice <alice@example.org>", "To: Bob <bob@example.com>",
                     "Cc: Carol <carol@example.com>", "Bcc: David <david@example.net>">>),
     ArrayArgument(<<"From: Alice <alice@example.org>", "Bcc:">>),
     ArrayArgument(<<>>)}

\* message = messageLines when the argument is left out.
MessageOf(argument) == IF argument.type = "array" THEN argument.array ELSE messageLines

\* Array.push and Array.unshift
Push(array, items) == array \o items

\* Mutant: the element is added at the end.
Unshift_AtEnd(array, item) == Append(array, item)

Unshift(array, item) == <<item>> \o array

\* The elements the indices refer to.
Elements(h, indices) == [i \in DOMAIN indices |-> h[indices[i]]]

\* Mutant: what was constructed so far is printed before the error leaves.
Abort_PrintsFirst ==
    /\ pc' = "failed"
    /\ call' = [call EXCEPT !.error = TRUE]
    /\ output' = Append(output, [markup |-> <<[type |-> "open", tag |-> "svg"]>>])
    /\ UNCHANGED <<dnsResponseStore, lookups, heap, elements, registry>>

\* An error thrown by a constructor leaves printEnvelope: nothing catches it,
\* and no later statement runs.
Abort ==
    /\ pc' = "failed"
    /\ call' = [call EXCEPT !.error = TRUE]
    /\ UNCHANGED <<dnsResponseStore, lookups, heap, elements, registry, output>>

\* new Rectangle(props) and box.text(lines, alignment, margin): the result is
\* the text, the rectangle is the object before it.
BoxWithText(h, props, lines, alignmentArgument, marginArgument) ==
    LET box == Constructed(h, Rectangle(props))
    IN  IF box.error THEN Thrown(h)
        ELSE Rectangle_text(box.heap, box.result, lines, alignmentArgument, marginArgument)

PrintEnvelopeCall(left, right, envelope, message) ==
    /\ pc = "idle"
    /\ pc' = "leftBox"
    /\ elements' = <<>>
    /\ call' = [op |-> "printEnvelope", left |-> left, right |-> right,
                envelope |-> envelope, message |-> message, error |-> FALSE,
                leftBox |-> 0, envelopeBox |-> 0, messageBox |-> 0, rightBox |-> 0,
                printSVG |-> <<>>]
    /\ UNCHANGED <<dnsResponseStore, lookups, heap, registry, output>>

\* The sizes of the message and of the envelope around it.
messageSize(message) ==
    add([x |-> messageWidth * Unit,
         y |-> calculateTextHeight(<<messageTitle>> \o MessageOf(message))],
        doubleTextMargin)

\* An envelope that is wider than the message by one envelopeMargin only.
envelopeSize_OneMargin(envelope, message) ==
    [x |-> messageSize(message).x + envelopeMargin,
     y |-> messageSize(message).y + calculateTextHeight(<<envelopeTitle>> \o envelope)
            + doubleTextMargin.y + 3 * envelopeMargin]

envelopeSize(envelope, message) ==
    [x |-> messageSize(message).x + 2 * envelopeMargin,
     y |-> messageSize(message).y + calculateTextHeight(<<envelopeTitle>> \o envelope)
            + doubleTextMargin.y + 3 * envelopeMargin]

LeftBoxStep(throws) ==
    /\ pc = "leftBox"
    /\ LET r == BoxWithText(heap, [position |-> [x |-> 0, y |-> -(size.y \div 2)],
                                   size |-> size],
                            call.left, UndefinedArgument, UndefinedArgument)
       IN  IF throws \/ r.error THEN Abort
           ELSE /\ heap' = r.heap
                /\ elements' = Push(elements, <<r.result - 1, r.result>>)
                /\ call' = [call EXCEPT !.leftBox = r.result - 1]
                /\ pc' = "envelopeBox"
                /\ UNCHANGED <<dnsResponseStore, lookups, registry, output>>

EnvelopeBoxStep(throws) ==
    /\ pc = "envelopeBox"
    /\ LET envelopeLines == <<envelopeTitle>> \o call.envelope
           theSize == envelopeSize(call.envelope, call.message)
           r == BoxWithText(heap,
                            [position |-> [x |-> size.x + gap * Unit,
                                           y |-> -(theSize.y \div 2)],
                             size |-> theSize, cornerRadius |-> 0, color |-> "green",
                             classes |-> "angular"],
                            envelopeLines, ObjectArgument(alignment),
                            ObjectArgument(add(textMargin,
                                               [x |-> envelopeMargin, y |-> envelopeMargin])))
       IN  IF throws \/ r.error THEN Abort
           ELSE /\ heap' = r.heap
                /\ elements' = Push(elements, <<r.result - 1, r.result>>)
                /\ call' = [call EXCEPT !.envelopeBox = r.result - 1]
                /\ pc' = "messageBox"
                /\ UNCHANGED <<dnsResponseStore, lookups, registry, output>>

MessageBoxStep(throws) ==
    /\ pc = "messageBox"
    /\ LET theLines == <<messageTitle>> \o MessageOf(call.message)
           theSize == messageSize(call.message)
           around == envelopeSize(call.envelope, call.message)
           r == BoxWithText(heap,
                            [position |-> [x |-> size.x + gap * Unit + envelopeMargin,
                                           y |-> around.y \div 2 - envelopeMargin
                                                    - theSize.y],
                             size |-> theSize, cornerRadius |-> 0, color |-> "blue",
                             classes |-> "angular"],
                            theLines, ObjectArgument(alignment), UndefinedArgument)
       IN  IF throws \/ r.error THEN Abort
           ELSE /\ heap' = r.heap
                /\ elements' = Push(elements, <<r.result - 1, r.result>>)
                /\ call' = [call EXCEPT !.messageBox = r.result - 1]
                /\ pc' = "rightBox"
                /\ UNCHANGED <<dnsResponseStore, lookups, registry, output>>

RightBoxStep(throws) ==
    /\ pc = "rightBox"
    /\ LET around == envelopeSize(call.envelope, call.message)
           r == BoxWithText(heap,
                            [position |-> [x |-> size.x + 2 * gap * Unit + around.x,
                                           y |-> -(size.y \div 2)],
                             size |-> size],
                            call.right, UndefinedArgument, UndefinedArgument)
       IN  IF throws \/ r.error THEN Abort
           ELSE /\ heap' = r.heap
                /\ elements' = Push(elements, <<r.result - 1, r.result>>)
                /\ call' = [call EXCEPT !.rightBox = r.result - 1]
                /\ pc' = "connectLeft"
                /\ UNCHANGED <<dnsResponseStore, lookups, registry, output>>

\* Line.connectBoxes of the script is the connector ConnectionLine.
ConnectLeftStep(throws) ==
    /\ pc = "connectLeft"
    /\ LET r == ConnectionLine(heap[call.leftBox], "right", heap[call.envelopeBox], "left",
                               ObjectArgument([color |-> "green",
                                               marker |-> MarkerArray(<<>>)]))
       IN  IF throws \/ r.error THEN Abort
           ELSE /\ heap' = Append(heap, r.line)
                /\ elements' = Unshift(elements, Len(heap) + 1)
                /\ pc' = "connectRight"
                /\ UNCHANGED <<dnsResponseStore, lookups, call, registry, output>>

ConnectRightStep(throws) ==
    /\ pc = "connectRight"
    /\ LET r == ConnectionLine(heap[call.envelopeBox], "right", heap[call.rightBox], "left",
                               ObjectArgument([color |-> "green"]))
       IN  IF throws \/ r.error THEN Abort
           ELSE /\ heap' = Append(heap, r.line)
                /\ elements' = Unshift(elements, Len(heap) + 1)
                /\ pc' = "printSVG"
                /\ UNCHANGED <<dnsResponseStore, lookups, call, registry, output>>

PrintStep ==
    /\ pc = "printSVG"
    /\ LET document == printSVG(Elements(heap, elements))
       IN  /\ output' = Append(output, document)
           /\ registry' = document.definitions
    /\ call' = [call EXCEPT !.printSVG = elements]
    /\ pc' = "done"
    /\ UNCHANGED <<dnsResponseStore, lookups, heap, elements>>

(***************************************************************************)
(* The packet-response diagram on the mesh topology.                       *)
(***************************************************************************)

defaultDistance == 6 * nodeRadius

nodeProperties == [radius |-> nodeRadius * Unit, color |-> "green"]

relayProperties == [radius |-> nodeRadius * Unit, color |-> "blue"]

linkProperties == [color |-> "yellow", marker |-> MarkerArray(<<"start", "end">>)]

\* A place of the mesh: column and row, defaultDistance apart.
At(column, row) == P(column * defaultDistance, row * defaultDistance)

\* The mesh (network-topology-mesh): the relays A, B and C, the nodes A1, A2,
\* B1, B2 and C1, and nine links.  Objects are named by their heap index.
MeshRelays == <<1, 2, 3>>

MeshNodes == <<4, 5, 6, 7, 8>>

MeshA == 1

MeshB == 2

MeshC == 3

MeshA1 == 4

MeshB2 == 7

MeshCircles ==
    << Circle(Spread([center |-> At(1, 0)], relayProperties)),
       Circle(Spread([center |-> At(2, 0)], relayProperties)),
       Circle(Spread([center |-> At(2, 1)], relayProperties)),
       Circle(Spread([center |-> At(0, 0)], nodeProperties)),
       Circle(Spread([center |-> At(1, 1)], nodeProperties)),
       Circle(Spread([center |-> At(3, 0)], nodeProperties)),
       Circle(Spread([center |-> At(3, 1)], nodeProperties)),
       Circle(Spread([center |-> At(2, 2)], nodeProperties)) >>

\* The ends of the links, in the order of the array links.
MeshLinkEnds ==
    << <<4, 1>>, <<5, 1>>, <<1, 2>>, <<2, 6>>, <<2, 3>>, <<3, 7>>, <<3, 8>>, <<5, 3>>,
       <<6, 7>>, <<5, 7>> >>

\* Line.connectEllipses of the scripts is the connector DiagonalLine.
MeshLinks ==
    [i \in DOMAIN MeshLinkEnds |->
        DiagonalLine(MeshCircles[MeshLinkEnds[i][1]], MeshCircles[MeshLinkEnds[i][2]],
                     ObjectArgument(linkProperties)).line]

\* A splice that removes the element after the one at start.
Splice_After(array, start) ==
    IF start + 2 \in DOMAIN array
    THEN SubSeq(array, 1, start + 1) \o SubSeq(array, start + 3, Len(array))
    ELSE array

\* array.splice(start, 1) with a zero-based start: the element at start is
\* removed when there is one.
Splice(array, start) ==
    IF start + 1 \in DOMAIN array
    THEN SubSeq(array, 1, start) \o SubSeq(array, start + 2, Len(array))
    ELSE array

\* The mesh is imported from a module that is not part of the sources at hand:
\* the number of its links is an input of the script.
MeshLinkCounts == 7 .. Len(MeshLinkEnds)

\* The import of the mesh and the four splices of links. The field imported
\* keeps the array as it was imported, for the comparison with the spliced one.
PacketLinksStep(count) ==
    /\ pc = "idle"
    /\ heap' = MeshCircles \o SubSeq(MeshLinks, 1, count)
    /\ LET links == [i \in 1 .. count |-> Len(MeshCircles) + i]
       IN  call' = [op |-> "packetResponse", error |-> FALSE,
                    imported |-> links,
                    links |-> Splice(Splice(Splice(Splice(links, 7), 4), 2), 0),
                    route |-> <<>>, packets |-> <<>>,
                    nodes |-> MeshNodes, relays |-> MeshRelays, printSVG |-> <<>>]
    /\ pc' = "route"
    /\ UNCHANGED <<dnsResponseStore, lookups, registry, elements, output>>

\* The ends of the route, in the order of the array route.
RouteEnds == << <<MeshB2, MeshC>>, <<MeshC, MeshB>>, <<MeshB, MeshA>>, <<MeshA, MeshA1>> >>

PacketRouteStep ==
    /\ pc = "route"
    /\ LET lines == [i \in DOMAIN RouteEnds |->
                        DiagonalLine(heap[RouteEnds[i][1]], heap[RouteEnds[i][2]],
                                     ObjectArgument([color |-> "orange"])).line]
       IN  /\ heap' = heap \o lines
           /\ call' = [call EXCEPT !.route = [i \in DOMAIN lines |-> Len(heap) + i]]
    /\ pc' = "packets"
    /\ UNCHANGED <<dnsResponseStore, lookups, registry, elements, output>>

\* route.map((line, index) => line.text(square, index === 1 ? 'left' : 'right',
\* 18, { ... })): one text for each line of the route, in order.
RECURSIVE MapText(_, _, _)
MapText(h, route, index) ==
    IF index > Len(route) THEN [heap |-> h, packets |-> <<>>]
    ELSE LET r == Line_text(h, route[index], "square",
                            IF index - 1 = 1 THEN "left" ELSE "right",
                            NumberArgument(18 * Unit))
             rest == MapText(r.heap, route, index + 1)
         IN  [heap |-> rest.heap, packets |-> <<r.result>> \o rest.packets]

PacketTextStep ==
    /\ pc = "packets"
    /\ LET r == MapText(heap, call.route, 1)
       IN  /\ heap' = r.heap
           /\ call' = [call EXCEPT !.packets = r.packets]
    /\ pc' = "printPacket"
    /\ UNCHANGED <<dnsResponseStore, lookups, registry, elements, output>>

\* printSVG(...links, ...route, ...packets, ...nodes, ...relays)
PacketPrintStep ==
    /\ pc = "printPacket"
    /\ LET arguments == call.links \o call.route \o call.packets \o call.nodes \o call.relays
           document == printSVG(Elements(heap, arguments))
       IN  /\ output' = Append(output, document)
           /\ registry' = document.definitions
           /\ call' = [call EXCEPT !.printSVG = arguments]
    /\ pc' = "done"
    /\ UNCHANGED <<dnsResponseStore, lookups, heap, elements>>

NextScript ==
    \/ \E left \in LeftInputs, right \in RightInputs, envelope \in EnvelopeInputs,
          message \in MessageInputs : PrintEnvelopeCall(left, right, envelope, message)
    \/ \E throws \in BOOLEAN : LeftBoxStep(throws)
    \/ \E throws \in BOOLEAN : EnvelopeBoxStep(throws)
    \/ \E throws \in BOOLEAN : MessageBoxStep(throws)
    \/ \E throws \in BOOLEAN : RightBoxStep(throws)
    \/ \E throws \in BOOLEAN : ConnectLeftStep(throws)
    \/ \E throws \in BOOLEAN : ConnectRightStep(throws)
    \/ PrintStep
    \/ \E count \in MeshLinkCounts : PacketLinksStep(count)
    \/ PacketRouteStep
    \/ PacketTextStep
    \/ PacketPrintStep

SpecScript == Init /\ [][NextScript]_vars

(***************************************************************************)
(* Claims about the diagram scripts (checked under SpecScript).            *)
(***************************************************************************)

\* C12: a diagram generation that fails never emits partial output: in
\* printEnvelope, if the construction of any rectangle, text or connection
\* line fails, printSVG is not called at all, and printSVG is called at most
\* once per printEnvelope call, only after every element has been constructed
\* (four rectangles, four texts and two lines).
C12_NoPartialOutput ==
    call.op = "printEnvelope" =>
        /\ Len(output) <= 1
        /\ (pc = "failed" \/ call.error) => output = <<>>
        /\ pc # "done" => output = <<>>
        /\ output # <<>>
            => /\ ~call.error
               /\ call.printSVG = elements
               /\ Len(elements) = 10
               /\ \A i \in DOMAIN elements : elements[i] \in DOMAIN heap
               /\ Cardinality({i \in DOMAIN elements :
                                 heap[elements[i]].kind = "rectangle"}) = 4
               /\ Cardinality({i \in DOMAIN elements : heap[elements[i]].kind = "text"}) = 4
               /\ Cardinality({i \in DOMAIN elements : heap[elements[i]].kind = "line"}) = 2

\* The second connection line could not be constructed: four rectangles, four
\* texts and one line exist, and nothing was printed.
C12_Witness ==
    /\ call.op = "printEnvelope"
    /\ pc = "failed"
    /\ call.error
    /\ Len(elements) = 9
    /\ output = <<>>

\* The place of the object in the sequence handed to printSVG.
PlaceOf(object) == CHOOSE i \in DOMAIN call.printSVG : call.printSVG[i] = object

\* printSVG was called by the script.
Handed(op) == call.op = op /\ call.printSVG # <<>>

\* C15: the sequence handed to printSVG is back to front, with each connecting
\* line before the shapes it connects: in printEnvelope both connection lines
\* precede all four rectangles and their texts, and the envelope rectangle
\* precedes the message rectangle drawn inside it; in the packet-response
\* script every link and route line precedes every node and relay.
C15_BackToFront ==
    /\ Handed("printEnvelope")
        => LET arguments == Elements(heap, call.printSVG)
           IN  /\ Cardinality({i \in DOMAIN arguments : arguments[i].kind = "line"}) = 2
               /\ \A i, j \in DOMAIN arguments :
                    (arguments[i].kind = "line" /\ arguments[j].kind \in {"rectangle", "text"})
                        => i < j
               /\ PlaceOf(call.envelopeBox) < PlaceOf(call.messageBox)
    /\ Handed("packetResponse")
        => /\ \A i \in DOMAIN call.links \cup DOMAIN call.route :
                \A j \in DOMAIN call.nodes \cup DOMAIN call.relays :
                    /\ i \in DOMAIN call.links /\ j \in DOMAIN call.nodes
                        => PlaceOf(call.links[i]) < PlaceOf(call.nodes[j])
                    /\ i \in DOMAIN call.links /\ j \in DOMAIN call.relays
                        => PlaceOf(call.links[i]) < PlaceOf(call.relays[j])
                    /\ i \in DOMAIN call.route /\ j \in DOMAIN call.nodes
                        => PlaceOf(call.route[i]) < PlaceOf(call.nodes[j])
                    /\ i \in DOMAIN call.route /\ j \in DOMAIN call.relays
                        => PlaceOf(call.route[i]) < PlaceOf(call.relays[j])
           /\ \A i, j \in DOMAIN call.printSVG :
                (heap[call.printSVG[i]].kind = "line"
                    /\ heap[call.printSVG[j]].kind = "circle") => i < j

\* printEnvelope has printed: the connector added last comes first, then the
\* connector added before it, then the left box.
C15_Witness ==
    /\ Handed("printEnvelope")
    /\ pc = "done"
    /\ heap[call.printSVG[1]].kind = "line"
    /\ heap[call.printSVG[1]].props.marker = SingleMarker("end")
    /\ heap[call.printSVG[2]].kind = "line"
    /\ heap[call.printSVG[2]].props.marker = MarkerArray(<<>>)
    /\ call.printSVG[3] = call.leftBox


\* The elements of list whose one-based places are not in removed, in the
\* order of list.
Remaining(list, removed) ==
    LET kept[i \in 0 .. Len(list)] ==
            IF i = 0 THEN <<>>
            ELSE IF i \in removed THEN kept[i - 1]
            ELSE Append(kept[i - 1], list[i])
    IN  kept[Len(list)]

\* C25: after the four splices at 7, 4, 2 and 0, an array links of at least
\* eight elements holds the imported elements without those of the zero-based
\* indexes 0, 2, 4 and 7 (the one-based places 1, 3, 5 and 8), in the
\* imported order.
C25_SplicesRemoveOriginalIndexes ==
    (call.op = "packetResponse" /\ Len(call.imported) >= 8) =>
        call.links = Remaining(call.imported, {1, 3, 5, 8})

C25_Witness ==
    /\ call.op = "packetResponse"
    /\ Len(call.imported) = 9
    /\ call.links = <<10, 12, 14, 15, 17>>


\* C26: the message rectangle lies inside the envelope rectangle: its left,
\* right and bottom edges are exactly envelopeMargin inside the envelope's,
\* and its top edge is not above the envelope's top edge.
C26_MessageInsideEnvelope ==
    (call.op = "printEnvelope" /\ call.messageBox # 0) =>
        LET outer == boundingBox(heap[call.envelopeBox])
            inner == boundingBox(heap[call.messageBox])
        IN  /\ inner.topLeft.x = outer.topLeft.x + envelopeMargin
            /\ inner.topLeft.x + inner.size.x =
                   outer.topLeft.x + outer.size.x - envelopeMargin
            /\ inner.topLeft.y + inner.size.y =
                   outer.topLeft.y + outer.size.y - envelopeMargin
            /\ inner.topLeft.y >= outer.topLeft.y

\* A message of four lines in an envelope without lines of its own: both
\* rectangles exist.
C26_Witness ==
    /\ call.op = "printEnvelope"
    /\ call.messageBox # 0
    /\ call.envelope = <<>>
    /\ call.message = ArrayArgument(<<"From: Alice <alice@example.org>",
                                      "To: Bob <bob@example.com>",
                                      "Cc: Carol <carol@example.com>",
                                      "Bcc: David <david@example.net>">>)
    /\ heap[call.messageBox].kind = "rectangle"
    /\ heap[call.envelopeBox].kind = "rectangle"


(***************************************************************************)
(* The DNS lookup tool: the time to live of a record.                      *)
(***************************************************************************)

\* Math.round(n / d) for an integer n and a positive even d: the nearest
\* integer, a tie going up.
MathRound(n, d) == (n + d \div 2) \div d

\* What parseTimeToLive returns, '~' + count + ' ' + unit or count + ' ' + unit,
\* as the three parts of the text.
TimeToLive(approximate, count, unit) ==
    [approximate |-> approximate, count |-> count, unit |-> unit]

\* Mutant: minutes are used from one minute on.
parseTimeToLive_FromOneMinute(ttl) ==
    IF ttl > 129600 THEN TimeToLive(ttl % 86400 # 0, MathRound(ttl, 86400), "days")
    ELSE IF ttl > 5400 THEN TimeToLive(ttl % 3600 # 0, MathRound(ttl, 3600), "hours")
    ELSE IF ttl > 60 THEN TimeToLive(ttl % 60 # 0, MathRound(ttl, 60), "minutes")
    ELSE TimeToLive(FALSE, ttl, "seconds")

\* Mutant: the count is rounded down.
parseTimeToLive_RoundedDown(ttl) ==
    IF ttl > 129600 THEN TimeToLive(ttl % 86400 # 0, ttl \div 86400, "days")
    ELSE IF ttl > 5400 THEN TimeToLive(ttl % 3600 # 0, ttl \div 3600, "hours")
    ELSE IF ttl > 90 THEN TimeToLive(ttl % 60 # 0, ttl \div 60, "minutes")
    ELSE TimeToLive(FALSE, ttl, "seconds")

parseTimeToLive(ttl) ==
    IF ttl > 129600 THEN TimeToLive(ttl % 86400 # 0, MathRound(ttl, 86400), "days")
    ELSE IF ttl > 5400 THEN TimeToLive(ttl % 3600 # 0, MathRound(ttl, 3600), "hours")
    ELSE IF ttl > 90 THEN TimeToLive(ttl % 60 # 0, MathRound(ttl, 60), "minutes")
    ELSE TimeToLive(FALSE, ttl, "seconds")

\* The times to live of the records: 0 to MaxTimeToLive seconds.
MaxTimeToLive == 350000

\* One cell of the table: parseTimeToLive(record.ttl).
ParseTimeToLiveCall(ttl) ==
    /\ call' = [op |-> "parseTimeToLive", ttl |-> ttl, returned |-> parseTimeToLive(ttl)]
    /\ UNCHANGED <<heap, generation>>

\* The function is applied once to each time to live.
NextTimeToLive ==
    /\ call = NoCall
    /\ \E ttl \in 0 .. MaxTimeToLive : ParseTimeToLiveCall(ttl)

SpecTimeToLive == Init /\ [][NextTimeToLive]_vars

\* The seconds in one unit of the text.
SecondsIn(unit) ==
    CASE unit = "seconds" -> 1
      [] unit = "minutes" -> 60
      [] unit = "hours" -> 3600
      [] unit = "days" -> 86400

\* C28: parseTimeToLive displays seconds up to 90, minutes above 90 up to
\* 5400, hours above 5400 up to 129600 and days above that, and for every
\* integer ttl above 90 the rounded count it displays is at least 2.
C28_UnitsAndCountAtLeastTwo ==
    call.op = "parseTimeToLive" =>
        LET ttl == call.ttl
            text == call.returned
        IN  /\ text.unit = (IF ttl <= 90 THEN "seconds"
                            ELSE IF ttl <= 5400 THEN "minutes"
                            ELSE IF ttl <= 129600 THEN "hours"
                            ELSE "days")
            /\ ttl > 90 => text.count >= 2

\* The smallest time to live of each unit above seconds has been displayed
\* with the count 2.
C28_Witness ==
    /\ call.op = "parseTimeToLive"
    /\ call.ttl \in {91, 5401, 129601}
    /\ call.returned.count = 2
    /\ call.returned.unit # "seconds"

\* C29: for every integer ttl above 90, the text has the prefix '~' exactly
\* when the displayed count times the unit differs from ttl; without the
\* prefix they are equal, with it they differ by at most half a unit.
C29_PrefixMarksRounding ==
    (call.op = "parseTimeToLive" /\ call.ttl > 90) =>
        LET ttl == call.ttl
            text == call.returned
            unit == SecondsIn(text.unit)
            displayed == text.count * unit
        IN  /\ text.approximate <=> displayed # ttl
            /\ ~text.approximate => displayed = ttl
            /\ text.approximate => 2 * Abs(displayed - ttl) <= unit

\* Two and a half days are displayed as about 3 days, half a unit away.
C29_Witness ==
    /\ call.op = "parseTimeToLive"
    /\ call.ttl = 216000
    /\ call.returned = TimeToLive(TRUE, 3, "days")


(***************************************************************************)
(* The DNS lookup tool: regular expressions and the data of a record.      *)
(***************************************************************************)

\* A string is the sequence of its characters. The classes of characters the
\* patterns name:
Digit == {"0", "1", "2", "3", "4", "5", "6", "7", "8", "9"}

Lower ==
    {"a", "b", "c", "d", "e", "f", "g", "h", "i", "j", "k", "l", "m",
     "n", "o", "p", "q", "r", "s", "t", "u", "v", "w", "x", "y", "z"}

Upper ==
    {"A", "B", "C", "D", "E", "F", "G", "H", "I", "J", "K", "L", "M",
     "N", "O", "P", "Q", "R", "S", "T", "U", "V", "W", "X", "Y", "Z"}

Letter == Lower \cup Upper

\* A regular expression is a tree of character classes, sequences,
\* alternatives and repetitions; Unlimited is the upper limit of * and +.
Unlimited == -1

Chars(set) == [re |-> "chars", chars |-> set]

NotChars(set) == [re |-> "notChars", chars |-> set]

Concat(list) == [re |-> "seq", of |-> list]

Alt(list) == [re |-> "alt", of |-> list]

Rep(r, min, max) == [re |-> "rep", of |-> <<r>>, min |-> min, max |-> max]

Lit(c) == Chars({c})

Literal(string) == Concat([i \in DOMAIN string |-> Lit(string[i])])

\* The positions at which a match of the expression that starts at position i
\* of the string can end (the position after its last character).
RECURSIVE Ends(_, _, _)
RECURSIVE EndsSeq(_, _, _, _)
RECURSIVE EndsRep(_, _, _, _)

Ends(r, string, i) ==
    CASE r.re = "chars" ->
            IF i \in DOMAIN string /\ string[i] \in r.chars THEN {i + 1} ELSE {}
      [] r.re = "notChars" ->
            IF i \in DOMAIN string /\ string[i] \notin r.chars THEN {i + 1} ELSE {}
      [] r.re = "seq" -> EndsSeq(r.of, 1, string, {i})
      [] r.re = "alt" -> UNION {Ends(r.of[k], string, i) : k \in DOMAIN r.of}
      [] r.re = "rep" -> EndsRep(r, string, {i}, 0)

EndsSeq(list, k, string, from) ==
    IF k > Len(list) \/ from = {} THEN from
    ELSE EndsSeq(list, k + 1, string, UNION {Ends(list[k], string, i) : i \in from})

\* from holds the positions reached after done repetitions.
EndsRep(r, string, from, done) ==
    (IF done >= r.min THEN from ELSE {})
    \cup (IF from = {} \/ done = r.max \/ done > Len(string) + r.min THEN {}
          ELSE EndsRep(r, string, UNION {Ends(r.of[1], string, i) : i \in from},
                       done + 1))

\* /^...$/.test(string): the expression matches the whole string.
Test(regexp, string) == Len(string) + 1 \in Ends(regexp, string, 1)

\* string.split(' ')
RECURSIVE Split(_)
Split(string) ==
    IF \E i \in DOMAIN string : string[i] = " "
    THEN LET i == CHOOSE i \in DOMAIN string :
                     string[i] = " " /\ \A j \in 1 .. i - 1 : string[j] # " "
         IN  <<SubSeq(string, 1, i - 1)>> \o Split(SubSeq(string, i + 1, Len(string)))
    ELSE <<string>>

\* The pieces the patterns are written with.
Space == Lit(" ")

\* \d+
Number == Rep(Chars(Digit), 1, Unlimited)

\* \d{1,3}
Octet == Rep(Chars(Digit), 1, 3)

\* ([A-Za-z0-9+/]{4})*([A-Za-z0-9+/]{2}==|[A-Za-z0-9+/]{3}=|[A-Za-z0-9+/]{4})
Base64 ==
    LET character == Chars(Letter \cup Digit \cup {"+", "/"})
    IN  Concat(<<Rep(Rep(character, 4, 4), 0, Unlimited),
               Alt(<<Concat(<<Rep(character, 2, 2), Lit("="), Lit("=")>>),
                     Concat(<<Rep(character, 3, 3), Lit("=")>>),
                     Rep(character, 4, 4)>>)>>)

\* [a-z0-9_]([-a-z0-9]{0,61}[a-z0-9])?\. with the flag i
Label ==
    Concat(<<Chars(Letter \cup Digit \cup {"_"}),
           Rep(Concat(<<Rep(Chars(Letter \cup Digit \cup {"-"}), 0, 61),
                      Chars(Letter \cup Digit)>>), 0, 1),
           Lit(".")>>)

\* [a-z][-a-z0-9]{0,61}[a-z0-9] with the flag i
TopLabel ==
    Concat(<<Chars(Letter), Rep(Chars(Letter \cup Digit \cup {"-"}), 0, 61),
           Chars(Letter \cup Digit)>>)

\* ([a-z0-9_]([-a-z0-9]{0,61}[a-z0-9])?\.)+[a-z][-a-z0-9]{0,61}[a-z0-9]\.
DomainName == Concat(<<Rep(Label, 1, Unlimited), TopLabel, Lit(".")>>)

\* (([a-z0-9_]([-a-z0-9]{0,61}[a-z0-9])?\.)+[a-z][-a-z0-9]{0,61}[a-z0-9])?\.
Host == Concat(<<Rep(Concat(<<Rep(Label, 1, Unlimited), TopLabel>>), 0, 1), Lit(".")>>)

\* (([a-z0-9_]([-a-z0-9]{0,61}[a-z0-9])?\.)*[a-z][-a-z0-9]{0,61}[a-z0-9])?\.
Signer == Concat(<<Rep(Concat(<<Rep(Label, 0, Unlimited), TopLabel>>), 0, 1), Lit(".")>>)

\* ([a-z0-9_]+(-[a-z0-9]+)*\\?\.)+[a-z]{2,63}\. with the flag i
Mailbox ==
    Concat(<<Rep(Concat(<<Rep(Chars(Letter \cup Digit \cup {"_"}), 1, Unlimited),
                      Rep(Concat(<<Lit("-"),
                                 Rep(Chars(Letter \cup Digit), 1, Unlimited)>>),
                          0, Unlimited),
                      Rep(Lit("\\"), 0, 1),
                      Lit(".")>>), 1, Unlimited),
           Rep(Chars(Letter), 2, 63), Lit(".")>>)

\* The words of a regular expression, with a space between two of them.
Spaced(words) ==
    Concat([i \in 1 .. 2 * Len(words) - 1 |->
            IF i % 2 = 1 THEN words[(i + 1) \div 2] ELSE Space])

\* A pattern: the regular expression and one field for each part after
\* splitting the data by space. A field is modelled by the start of its title.
Pattern(regexp, fields) == [regexp |-> regexp, fields |-> fields]

\* A record type that has a parser instead of a pattern.
Parser == [parser |-> TRUE]

DNSKEY ==
    Pattern(Spaced(<<Number, Number, Number, Base64>>),
            <<"Flags", "Protocol", "Algorithm", "The public key">>)

DS ==
    Pattern(Spaced(<<Number, Number, Number,
                     Rep(Chars({"A", "B", "C", "D", "E", "F"} \cup Digit), 1, Unlimited)>>),
            <<"Key tag", "Algorithm", "Digest type", "Digest">>)

Hexadecimal ==
    Rep(Chars(Digit \cup {"A", "B", "C", "D", "E", "F", "a", "b", "c", "d", "e", "f"}),
        1, Unlimited)

\* The characters . does not match, and the ones \S does not match (of the
\* characters the data below are written with).
LineTerminators == {"\n", "\r"}

WhiteSpace == {" ", "\t", "\n", "\r"}

recordTypePatterns ==
    [ANY |-> Parser,
     A |-> Pattern(Concat(<<Octet, Lit("."), Octet, Lit("."), Octet, Lit("."), Octet>>),
                   <<"The IPv4 address">>),
     AAAA |-> Pattern(Rep(NotChars(LineTerminators), 1, Unlimited),
                      <<"The IPv6 address">>),
     CAA |-> Pattern(Spaced(<<Octet,
                              Alt(<<Literal(<<"i", "s", "s", "u", "e">>),
                                    Literal(<<"i", "s", "s", "u", "e",
                                              "w", "i", "l", "d">>),
                                    Literal(<<"i", "o", "d", "e", "f">>)>>),
                              Concat(<<Lit("\""),
                                     Rep(NotChars(WhiteSpace), 1, Unlimited),
                                     Lit("\"")>>)>>),
                     <<"The most significant bit", "The property", "The value">>),
     CNAME |-> Pattern(DomainName, <<"The domain name">>),
     MX |-> Pattern(Spaced(<<Number, Host>>), <<"The priority", "A host">>),
     NS |-> Pattern(DomainName, <<"An authoritative name server">>),
     OPENPGPKEY |-> Parser,
     PTR |-> Pattern(DomainName, <<"This is typically the domain name">>),
     SMIMEA |-> Parser,
     SOA |-> Pattern(Spaced(<<DomainName, Mailbox, Number, Number, Number, Number,
                              Number>>),
                     <<"The primary name server", "The email address",
                       "The serial number", "Refresh", "Retry", "Expire",
                       "Negative caching">>),
     SPF |-> Parser,
     SRV |-> Pattern(Spaced(<<Number, Number, Number, Host>>),
                     <<"The priority", "A relative weight", "The port", "The host">>),
     SSHFP |-> Pattern(Spaced(<<Number, Number, Hexadecimal>>),
                       <<"Public key algorithm", "Hash algorithm", "The fingerprint">>),
     TLSA |-> Pattern(Spaced(<<Number, Number, Number, Hexadecimal>>),
                      <<"Certificate usage", "Selector", "Matching type",
                        "The certificate association data">>),
     TXT |-> Parser,
     DNSKEY |-> DNSKEY,
     DS |-> DS,
     RRSIG |-> Pattern(Spaced(<<Rep(Chars(Letter \cup Digit), 1, 10), Number, Number,
                                Number, Number, Number, Number, Signer, Base64>>),
                       <<"Type covered", "Algorithm", "Labels", "Original TTL",
                         "Signature expiration", "Signature inception", "Key tag",
                         "Signer name", "Signature">>),
     NSEC |-> Parser,
     NSEC3 |-> Parser,
     NSEC3PARAM |-> Pattern(Spaced(<<Number, Number, Number,
                                     Alt(<<Rep(Chars({"a", "b", "c", "d", "e", "f"}
                                                     \cup Digit), 1, Unlimited),
                                           Lit("-")>>)>>),
                            <<"Algorithm", "Flags", "Iterations", "Salt">>),
     CDS |-> DS,
     CDNSKEY |-> DNSKEY]

\* What parseDnsData returns: the spans of the row's last cell, or nothing
\* when it throws.
Spans(spans) == [error |-> FALSE, spans |-> spans]

TypeError == [error |-> TRUE]

\* The type of a record: the name of a supported type, or the number of an
\* unsupported one.
SupportedType(name) == [name |-> name]

UnsupportedType(number) == [number |-> number]

parseDnsData(record) ==
    IF Has(record.type, "number")
    THEN Spans(<<[title |-> "The data of this unsupported record type.",
                  text |-> record.data]>>)
    ELSE LET pattern == recordTypePatterns[record.type.name]
         IN  IF Has(pattern, "parser")
             THEN Spans(<<[title |-> "parsed", text |-> record.data]>>)
             ELSE IF Test(pattern.regexp, record.data)
             THEN LET fields == Split(record.data)
                  IN  IF \E index \in DOMAIN fields : index \notin DOMAIN pattern.fields
                      THEN TypeError
                      ELSE Spans([index \in DOMAIN fields |->
                                    [title |-> pattern.fields[index],
                                     text |-> fields[index]]])
             ELSE Spans(<<[title |->
                             "The data of this record didn't match the expected pattern.",
                           text |-> record.data]>>)

\* Record data as a resolver returns them.
DataSamples ==
    {
      \* an IPv4 address: 93.184.216.34
      <<"9", "3", ".", "1", "8", "4", ".", "2", "1", "6", ".", "3", "4">>,
      \* an IPv6 address: 2606:2800::1
      <<"2", "6", "0", "6", ":", "2", "8", "0", "0", ":", ":", "1">>,
      \* a CAA record: 0 issue "ca.org"
      <<"0", " ", "i", "s", "s", "u", "e", " ", "\"", "c", "a", ".", "o",
        "r", "g", "\"">>,
      \* a domain name: www.ef1p.com.
      <<"w", "w", "w", ".", "e", "f", "1", "p", ".", "c", "o", "m", ".">>,
      \* an MX record: 10 mx.ef1p.com.
      <<"1", "0", " ", "m", "x", ".", "e", "f", "1", "p", ".", "c", "o",
        "m", ".">>,
      \* the null MX record: 0 .
      <<"0", " ", ".">>,
      \* an SOA record: ns.ef1p.com. dns-admin.ef1p.com. 7 900 900 1800 60
      <<"n", "s", ".", "e", "f", "1", "p", ".", "c", "o", "m", ".", " ",
        "d", "n", "s", "-", "a", "d", "m", "i", "n", ".", "e", "f", "1",
        "p", ".", "c", "o", "m", ".", " ", "7", " ", "9", "0", "0", " ",
        "9", "0", "0", " ", "1", "8", "0", "0", " ", "6", "0">>,
      \* an SRV record: 0 5 5269 im.ef1p.com.
      <<"0", " ", "5", " ", "5", "2", "6", "9", " ", "i", "m", ".", "e",
        "f", "1", "p", ".", "c", "o", "m", ".">>,
      \* an SSHFP record: 4 2 9aBc
      <<"4", " ", "2", " ", "9", "a", "B", "c">>,
      \* a TLSA record: 3 1 1 0b9f
      <<"3", " ", "1", " ", "1", " ", "0", "b", "9", "f">>,
      \* a DNSKEY record: 257 3 13 AwEAAQ==
      <<"2", "5", "7", " ", "3", " ", "1", "3", " ", "A", "w", "E", "A",
        "A", "Q", "=", "=">>,
      \* a DS record: 2371 13 2 1F98
      <<"2", "3", "7", "1", " ", "1", "3", " ", "2", " ", "1", "F", "9",
        "8">>,
      \* an RRSIG record: a 13 2 300 1700000000 1690000000 2371 ef1p.com. Zm9v
      <<"a", " ", "1", "3", " ", "2", " ", "3", "0", "0", " ", "1", "7",
        "0", "0", "0", "0", "0", "0", "0", "0", " ", "1", "6", "9", "0",
        "0", "0", "0", "0", "0", "0", " ", "2", "3", "7", "1", " ", "e",
        "f", "1", "p", ".", "c", "o", "m", ".", " ", "Z", "m", "9", "v">>,
      \* an NSEC3PARAM record: 1 0 0 -
      <<"1", " ", "0", " ", "0", " ", "-">>
    }

\* The strings of at most MaxDataLength characters of DataAlphabet.
MaxDataLength == 3

DataAlphabet == {"1", "a", " ", ".", "-"}

ShortData == UNION {[1 .. n -> DataAlphabet] : n \in 0 .. MaxDataLength}

\* The data with a space instead of one character, with an additional space,
\* or without one character.
Variations(data) ==
    {[data EXCEPT ![i] = " "] : i \in DOMAIN data}
    \cup {SubSeq(data, 1, i) \o <<" ">> \o SubSeq(data, i + 1, Len(data)) :
            i \in 0 .. Len(data)}
    \cup {SubSeq(data, 1, i - 1) \o SubSeq(data, i + 1, Len(data)) : i \in DOMAIN data}

DataInputs == DataSamples \cup UNION {Variations(data) : data \in DataSamples} \cup ShortData

\* The record types: the supported ones and, as a number, an unsupported one.
RecordTypes ==
    {SupportedType(name) : name \in DOMAIN recordTypePatterns} \cup {UnsupportedType(65)}

\* One cell of the table: parseDnsData(record).
ParseDnsDataCall(record) ==
    /\ call' = [op |-> "parseDnsData", record |-> record,
                returned |-> parseDnsData(record)]
    /\ UNCHANGED <<heap, generation>>

\* The function is applied once to each record.
NextDnsData ==
    /\ call = NoCall
    /\ \E type \in RecordTypes, data \in DataInputs :
          ParseDnsDataCall([name |-> "ef1p.com.", type |-> type, data |-> data])

SpecDnsData == Init /\ [][NextDnsData]_vars

\* The data of the record are accepted by the regular expression of its type.
Accepted(record) ==
    /\ Has(record.type, "name")
    /\ Has(recordTypePatterns[record.type.name], "regexp")
    /\ Test(recordTypePatterns[record.type.name].regexp, record.data)

\* C22: for every record type with a pattern, every data string the regular
\* expression accepts splits on single spaces into exactly as many parts as
\* the pattern has fields, so that parseDnsData never looks up a missing
\* field.
C22_OneFieldPerPart ==
    (call.op = "parseDnsData" /\ Accepted(call.record)) =>
        /\ Len(Split(call.record.data)) =
              Len(recordTypePatterns[call.record.type.name].fields)
        /\ ~call.returned.error


(***************************************************************************)
(* The DNS lookup tool: lookups and the table of the response.             *)
(***************************************************************************)

\* undefined as the value of a key of the store's state.
Undefined == [undefined |-> TRUE]

\* A string as the value of the key error; the empty string is falsy.
Message(text) == [text |-> text]

Truthy(state, key) ==
    /\ Has(state, key)
    /\ state[key] # Undefined
    /\ (Has(state[key], "text") => state[key].text # "")

\* Store.setState(partialState): the given keys replace those of the state,
\* the other keys are kept.
setState(state, partialState) == Spread(state, partialState)

\* The rows of turnRecordsIntoTable: name, time to live, type and data of
\* each record.
turnRecordsIntoTable(records) ==
    [element |-> "table",
     rows |-> [i \in DOMAIN records |->
                 [name |-> records[i].name,
                  ttl |-> parseTimeToLive(records[i].ttl),
                  type |-> records[i].type,
                  data |-> parseDnsData(records[i])]]]

Paragraph(text) == [element |-> "p", text |-> text]

ErrorParagraph(error) ==
    [element |-> "error",
     text |-> "The domain name could not be resolved. Reason: ", reason |-> error.text]

\* The elements for which the condition holds, in the order of the fragment.
Fragment(parts) ==
    LET kept[i \in 0 .. Len(parts)] ==
            IF i = 0 THEN <<>>
            ELSE IF parts[i].shown THEN kept[i - 1] \o parts[i].content
            ELSE kept[i - 1]
    IN  kept[Len(parts)]

When(shown, content) == [shown |-> shown, content |-> content]

\* Mutant: a response is displayed whether or not there is an error.
RawDnsResponseTable_ResponseFirst(state, dnssecOk) ==
    IF Truthy(state, "response")
    THEN <<turnRecordsIntoTable(state.response.answer)>>
    ELSE IF Truthy(state, "error") THEN <<ErrorParagraph(state.error)>>
    ELSE <<>>

\* RawDnsResponseTable({ response, error }): the elements displayed; none for
\* null. dnssecOk is store.getCurrentState().dnssecOk.
RawDnsResponseTable(state, dnssecOk) ==
    IF Truthy(state, "error") THEN <<ErrorParagraph(state.error)>>
    ELSE IF Truthy(state, "response")
    THEN LET response == state.response
         IN  Fragment(<<
                 When(response.status # 0, <<Paragraph("status")>>),
                 When(response.status = 0 /\ Len(response.authority) > 0,
                      <<Paragraph("Answer section")>>),
                 When(response.status = 0 /\ Len(response.answer) = 0,
                      <<Paragraph("No records found for this domain name and record type.")>>),
                 When(Len(response.answer) > 0, <<turnRecordsIntoTable(response.answer)>>),
                 When(Len(response.authority) > 0,
                      <<Paragraph("Authority section"),
                        turnRecordsIntoTable(response.authority)>>),
                 When((Len(response.answer) > 0 \/ Len(response.authority) > 0) /\ dnssecOk,
                      <<Paragraph("Please note that this tool doesn't verify DNSSEC signatures.")>>)
             >>)
    ELSE <<>>

\* The records of the responses.
AddressRecord ==
    [name |-> "ef1p.com.", ttl |-> 300, type |-> SupportedType("A"),
     data |-> <<"9", "3", ".", "1", "8", "4", ".", "2", "1", "6", ".", "3", "4">>]

MailRecord ==
    [name |-> "ef1p.com.", ttl |-> 86400, type |-> SupportedType("MX"),
     data |-> <<"1", "0", " ", "m", "x", ".", "e", "f", "1", "p", ".", "c", "o", "m", ".">>]

AuthorityRecord ==
    [name |-> "com.", ttl |-> 900, type |-> SupportedType("SOA"),
     data |-> <<"a", ".", "n", "i", "c", ".", "c", "o", "m", ".", " ",
                "d", "n", "s", ".", "n", "i", "c", ".", "c", "o", "m", ".", " ",
                "7", " ", "9", "0", "0", " ", "9", "0", "0", " ",
                "1", "8", "0", "0", " ", "6", "0">>]

\* What resolveDomainName may resolve to: records in the answer, records in
\* the authority section only, or a status other than 0 without records.
Responses ==
    { [status |-> 0, answer |-> <<AddressRecord>>, authority |-> <<>>],
      [status |-> 0, answer |-> <<MailRecord>>, authority |-> <<AuthorityRecord>>],
      [status |-> 0, answer |-> <<>>, authority |-> <<AuthorityRecord>>],
      [status |-> 3, answer |-> <<>>, authority |-> <<>>] }

\* What getErrorMessage may return when resolveDomainName rejects.
ErrorMessages == {"Failed to fetch", "The request timed out."}

Resolved(response) == [resolved |-> TRUE, response |-> response]

Rejected(message) == [resolved |-> FALSE, message |-> message]

Outcomes ==
    {Resolved(response) : response \in Responses}
    \cup {Rejected(message) : message \in ErrorMessages}

\* The states of the input store.
States ==
    { [domainName |-> "ef1p.com", recordType |-> "A", dnssecOk |-> FALSE],
      [domainName |-> "ef1p.com", recordType |-> "MX", dnssecOk |-> TRUE] }

\* At most MaxLookups lookups are started.
MaxLookups == 2

\* The lookups started, in the order of their start: a lookup awaits
\* resolveDomainName until it is resumed.
Awaiting(state) == [state |-> state, awaiting |-> TRUE]

Resumed(state, outcome) == [state |-> state, awaiting |-> FALSE, outcome |-> outcome]

\* store.getCurrentState(): the state of the lookup started last; the default
\* values of the entries before the first one.
CurrentState ==
    IF lookups = <<>>
    THEN [domainName |-> "ef1p.com", recordType |-> "A", dnssecOk |-> FALSE]
    ELSE lookups[Len(lookups)].state

\* What the component DnsResponseTable displays: the store renders it again
\* with every setState.
DnsResponseTable == RawDnsResponseTable(dnsResponseStore, CurrentState.dnssecOk)

\* updateDnsResponseTable(state) up to its await: the store calls it with
\* the new state when the inputs are submitted.
UpdateDnsResponseTableCall(state) ==
    /\ Len(lookups) < MaxLookups
    /\ lookups' = Append(lookups, Awaiting(state))
    /\ UNCHANGED <<heap, call, registry, elements, pc, output, dnsResponseStore>>

\* setDnsResolverInputs(domainName, recordType): a click on a field sets the
\* inputs and the new state, which starts a lookup; dnssecOk stays as it is.
SetDnsResolverInputsCall(domainName, recordType) ==
    /\ Len(lookups) < MaxLookups
    /\ lookups' = Append(lookups,
                         Awaiting([domainName |-> domainName, recordType |-> recordType,
                                   dnssecOk |-> CurrentState.dnssecOk]))
    /\ UNCHANGED <<heap, call, registry, elements, pc, output, dnsResponseStore>>

\* updateDnsResponseTable after its await: resolveDomainName has resolved or
\* rejected, and the outcome is written to the store.
UpdateDnsResponseTableResume(lookup, outcome) ==
    /\ lookup \in DOMAIN lookups
    /\ lookups[lookup].awaiting
    /\ lookups' = [lookups EXCEPT ![lookup] = Resumed(lookups[lookup].state, outcome)]
    /\ dnsResponseStore' =
          (IF outcome.resolved
           THEN setState(dnsResponseStore,
                         [response |-> outcome.response, error |-> Undefined])
           ELSE setState(dnsResponseStore, [error |-> Message(outcome.message)]))
    /\ call' = [op |-> "updateDnsResponseTable", lookup |-> lookup, outcome |-> outcome]
    /\ UNCHANGED <<heap, registry, elements, pc, output>>

NextLookup ==
    \/ \E state \in States : UpdateDnsResponseTableCall(state)
    \/ \E domainName \in {"mx.ef1p.com."}, recordType \in {"A"} :
          SetDnsResolverInputsCall(domainName, recordType)
    \/ \E lookup \in 1 .. MaxLookups, outcome \in Outcomes :
          UpdateDnsResponseTableResume(lookup, outcome)

SpecLookup == Init /\ [][NextLookup]_vars

\* The elements of the given kind in what is displayed.
Displayed(element) ==
    {i \in DOMAIN DnsResponseTable : DnsResponseTable[i].element = element}

\* The records in the tables displayed, table after table.
RecordsDisplayed ==
    LET rows[i \in 0 .. Len(DnsResponseTable)] ==
            IF i = 0 THEN <<>>
            ELSE IF DnsResponseTable[i].element = "table"
            THEN rows[i - 1] \o [k \in DOMAIN DnsResponseTable[i].rows |->
                                   [name |-> DnsResponseTable[i].rows[k].name,
                                    type |-> DnsResponseTable[i].rows[k].type]]
            ELSE rows[i - 1]
    IN  rows[Len(DnsResponseTable)]

RecordsOf(response) ==
    [k \in DOMAIN (response.answer \o response.authority) |->
        [name |-> (response.answer \o response.authority)[k].name,
         type |-> (response.answer \o response.authority)[k].type]]

\* The table displays the outcome: the error message and no table of
\* records, or the records of the response and no error message.
Shows(outcome) ==
    IF outcome.resolved
    THEN /\ Displayed("error") = {}
         /\ DnsResponseTable # <<>>
         /\ RecordsDisplayed = RecordsOf(outcome.response)
         /\ (\E i \in Displayed("p") : DnsResponseTable[i].text = "status")
               <=> outcome.response.status # 0
    ELSE /\ DnsResponseTable = <<ErrorParagraph(Message(outcome.message))>>
         /\ Displayed("table") = {}

\* Every lookup that was started has been resumed.
AllCompleted == lookups # <<>> /\ \A i \in DOMAIN lookups : ~lookups[i].awaiting

\* C23: when several lookups are started one after another and all of them
\* complete, in whatever order, the table finally shows the outcome of the
\* lookup that was started last.
C23_ShowsLookupStartedLast ==
    AllCompleted => Shows(lookups[Len(lookups)].outcome)

\* C24: the table shows the error message and no table of records exactly
\* when the lookup completed most recently failed, also after an earlier
\* success; it shows the new response and no error when that lookup
\* succeeded; before the first lookup completes it shows nothing.
C24_ShowsLookupCompletedLast ==
    /\ call.op = "updateDnsResponseTable" =>
          /\ Shows(call.outcome)
          /\ Displayed("error") # {} <=> ~call.outcome.resolved
    /\ call.op # "updateDnsResponseTable" => DnsResponseTable = <<>>

\* A lookup has succeeded and the next one has failed: the error message is
\* displayed and the store still holds the earlier response.
C24_Witness ==
    /\ call.op = "updateDnsResponseTable"
    /\ ~call.outcome.resolved
    /\ \A i \in DOMAIN lookups : ~lookups[i].awaiting
    /\ Len(lookups) = 2
    /\ lookups[1].outcome.resolved
    /\ Truthy(dnsResponseStore, "response")
    /\ DnsResponseTable = <<ErrorParagraph(Message(call.outcome.message))>>

====
